---------------------------- MODULE Spec2Model ----------------------------
(***************************************************************************)
(* Mini-Internet: the routers of src/Forwarding, src/Fragmentation and     *)
(* src/BGP.  Python strings are sequences of one-character strings, so     *)
(* that formatting (str, zfill, join), parsing (int, split) and encoding   *)
(* (len(s.encode())) are computed the way the code computes them.  Python  *)
(* values whose type matters (dictionary values) are tagged pairs          *)
(* <<"int", n>> or <<"str", s>>.                                           *)
(***************************************************************************)
EXTENDS Integers, Sequences, FiniteSets, Bags, TLC

(***************************************************************************)
(* Python values and strings                                               *)
(***************************************************************************)
I(n) == <<"int", n>>
S(s) == <<"str", s>>

None == [kind |-> "None"]
Raise(e) == [kind |-> "raise", exc |-> e]
IsDict(r) == "IP" \in DOMAIN r
IsRaise(r) == ("kind" \in DOMAIN r) /\ r.kind = "raise"

Digits == <<"0", "1", "2", "3", "4", "5", "6", "7", "8", "9">>
DigitSet == {Digits[i] : i \in 1..10}
DigitVal(c) == (CHOOSE i \in 1..10 : Digits[i] = c) - 1

\* The characters that take two bytes in UTF-8; every other character of the
\* model is ASCII and takes one.
WideChars == {"é"}
CharBytes(c) == IF c \in WideChars THEN 2 ELSE 1

\* len(s.encode()): one byte per character and one more for each wide one
encoded_len(s) == Len(s) + Cardinality({i \in 1..Len(s) : CharBytes(s[i]) = 2})

\* str(n) of an int
RECURSIVE strNat(_)
strNat(n) == IF n < 10 THEN <<Digits[n + 1]>> ELSE strNat(n \div 10) \o <<Digits[(n % 10) + 1]>>
str(n) == IF n < 0 THEN <<"-">> \o strNat(0 - n) ELSE strNat(n)

\* str(v) of a dictionary value
pystr(v) == IF v[1] = "int" THEN str(v[2]) ELSE v[2]

\* int(s): an optional sign and at least one digit; anything else raises
\* ValueError (IsInt is FALSE).
IsDigits(s) == s # <<>> /\ \A i \in 1..Len(s) : s[i] \in DigitSet
IsInt(s) == IF s # <<>> /\ s[1] \in {"-", "+"} THEN IsDigits(Tail(s)) ELSE IsDigits(s)
RECURSIVE natOf(_)
natOf(s) == IF s = <<>> THEN 0 ELSE 10 * natOf(SubSeq(s, 1, Len(s) - 1)) + DigitVal(s[Len(s)])
int(s) == IF s[1] = "-" THEN 0 - natOf(Tail(s)) ELSE IF s[1] = "+" THEN natOf(Tail(s)) ELSE natOf(s)

\* s.zfill(width)
RECURSIVE zeros(_)
zeros(n) == IF n <= 0 THEN <<>> ELSE <<"0">> \o zeros(n - 1)
zfill(s, width) ==
    IF s # <<>> /\ s[1] \in {"-", "+"}
    THEN <<s[1]>> \o zeros(width - Len(s)) \o Tail(s)
    ELSE zeros(width - Len(s)) \o s

\* sep.join(list) for a one-character separator
RECURSIVE join(_, _)
join(list, sep) ==
    IF list = <<>> THEN <<>>
    ELSE IF Len(list) = 1 THEN list[1]
    ELSE list[1] \o <<sep>> \o join(Tail(list), sep)

\* s.split(sep) for a one-character separator: the text before the first
\* separator, then the split of the text after it
RECURSIVE split(_, _)
split(s, sep) ==
    LET at == {i \in 1..Len(s) : s[i] = sep} IN
    IF at = {} THEN <<s>>
    ELSE LET first == CHOOSE i \in at : \A j \in at : i <= j IN
         <<SubSeq(s, 1, first - 1)>> \o split(SubSeq(s, first + 1, Len(s)), sep)

\* s[:n] and s[n:] for n >= 0
take(s, n) == SubSeq(s, 1, IF n < Len(s) THEN n ELSE Len(s))
drop(s, n) == SubSeq(s, (IF n < Len(s) THEN n ELSE Len(s)) + 1, Len(s))

(***************************************************************************)
(* Packet codec (Fragmentation and BGP routers: 8 fields)                  *)
(***************************************************************************)
\* ','.join([str(v) for v in parsed_packet.values()]); the dictionary keeps
\* its insertion order IP, Port, TTL, ID, Offset, Size, Flag, Message.
create_packet(p) ==
    join(<<pystr(p.IP), pystr(p.Port), pystr(p.TTL), pystr(p.ID),
           pystr(p.Offset), pystr(p.Size), pystr(p.Flag), pystr(p.Message)>>, ",")

\* parse_packet: split on every comma, fields 0..7; a missing field raises
\* IndexError, a non-numeric integer field ValueError.
parse_fields(f) ==
    IF Len(f) < 2 THEN Raise("IndexError")
    ELSE IF ~IsInt(f[2]) THEN Raise("ValueError")
    ELSE IF Len(f) < 3 THEN Raise("IndexError")
    ELSE IF ~IsInt(f[3]) THEN Raise("ValueError")
    ELSE IF Len(f) < 4 THEN Raise("IndexError")
    ELSE IF ~IsInt(f[4]) THEN Raise("ValueError")
    ELSE IF Len(f) < 5 THEN Raise("IndexError")
    ELSE IF ~IsInt(f[5]) THEN Raise("ValueError")
    ELSE IF Len(f) < 6 THEN Raise("IndexError")
    ELSE IF Len(f) < 7 THEN Raise("IndexError")
    ELSE IF ~IsInt(f[7]) THEN Raise("ValueError")
    ELSE IF Len(f) < 8 THEN Raise("IndexError")
    ELSE [IP |-> S(f[1]), Port |-> I(int(f[2])), TTL |-> I(int(f[3])),
          ID |-> I(int(f[4])), Offset |-> I(int(f[5])), Size |-> S(f[6]),
          Flag |-> I(int(f[7])), Message |-> S(f[8])]
parse_packet(w) == parse_fields(split(w, ","))

(***************************************************************************)
(* Fragmentation engine (Fragmentation and BGP routers, same code)         *)
(***************************************************************************)
\* One fragment's wire record: the copied headers with offset, size and flag
\* replaced, and the payload appended.
make_fragment(packet_headers, offset, size, flag, payload) ==
    join([packet_headers EXCEPT ![5] = str(offset), ![6] = zfill(str(size), 8), ![7] = flag]
            \o <<payload>>, ",")

\* A fragmentation that never splits: the whole payload in one record.
fragment_loop_unsplit(packet_headers, packet_message, offset, flag, room) ==
    <<make_fragment(packet_headers, offset, encoded_len(packet_message), flag, packet_message)>>

\* The while loop of fragment_IP_packet.  room is mtu - header_size; the
\* sizes are bytes (len(x.encode())) and the slices are characters.
RECURSIVE fragment_loop(_, _, _, _, _)
fragment_loop(packet_headers, packet_message, offset, flag, room) ==
    LET message_size == encoded_len(packet_message) IN
    IF ~(message_size > 0) THEN <<>>
    ELSE IF message_size > room
    THEN <<make_fragment(packet_headers, offset, room, <<"1">>, take(packet_message, room))>>
            \o fragment_loop(packet_headers, drop(packet_message, room), offset + room, flag, room)
    ELSE <<make_fragment(packet_headers, offset, message_size, flag, packet_message)>>

\* header_size of fragment_IP_packet: the seven header fields and their
\* separators, in bytes.
header_size_of(packet) ==
    encoded_len(join(SubSeq(split(create_packet(packet), ","), 1, 7), ",") \o <<",">>)

\* fragment_IP_packet(packet, mtu): the list of wire records, for a packet
\* whose payload holds no comma (the split keeps the text before the first
\* one).  The loop ends only on the inputs of FragmentTerminates.
fragment_IP_packet(packet, mtu) ==
    LET packet_str == create_packet(packet)
        packet_size == encoded_len(packet_str)
        packet_list == split(packet_str, ",")
        packet_headers == SubSeq(packet_list, 1, 7)
        packet_message == packet_list[8]
        header_size == encoded_len(join(packet_headers, ",") \o <<",">>)
        offset == int(packet_headers[5])
        flag == packet_headers[7]
    IN  IF packet_size <= mtu THEN <<packet_str>>
        ELSE fragment_loop(packet_headers, packet_message, offset, flag, mtu - header_size)

\* The inputs on which fragment_IP_packet returns: with mtu - header_size <= 0
\* and a payload left, the loop never shrinks the payload.
FragmentTerminates(packet, mtu) ==
    \/ encoded_len(create_packet(packet)) <= mtu
    \/ encoded_len(pystr(packet.Message)) = 0
    \/ mtu - header_size_of(packet) >= 1

(***************************************************************************)
(* Reassembly engine (Fragmentation and BGP routers, same code)            *)
(***************************************************************************)
\* list.sort(key=lambda x: int(x[4])) is stable: x goes after every element
\* whose key is not greater.
RECURSIVE insert_by_offset(_, _)
insert_by_offset(sorted, x) ==
    IF sorted = <<>> THEN <<x>>
    ELSE IF int(Head(sorted)[5]) <= int(x[5]) THEN <<Head(sorted)>> \o insert_by_offset(Tail(sorted), x)
    ELSE <<x>> \o sorted
RECURSIVE sort_by_offset(_)
sort_by_offset(frs) ==
    IF frs = <<>> THEN <<>>
    ELSE insert_by_offset(sort_by_offset(SubSeq(frs, 1, Len(frs) - 1)), frs[Len(frs)])

\* reassemble_loop without the comparison of the offset with the running
\* counter.
RECURSIVE reassemble_loop_unchecked(_, _, _, _, _)
reassemble_loop_unchecked(frs, i, cur_offset, message, cur_size) ==
    IF i > Len(frs) THEN [message |-> message, cur_size |-> cur_size]
    ELSE IF Len(frs[i]) < 8 THEN Raise("IndexError")
    ELSE IF ~IsInt(frs[i][6]) THEN Raise("ValueError")
    ELSE reassemble_loop_unchecked(frs, i + 1, cur_offset + int(frs[i][6]),
                                   message \o frs[i][8], cur_size + int(frs[i][6]))

\* The for loop of reassemble_IP_packet from fragment i on.
RECURSIVE reassemble_loop(_, _, _, _, _)
reassemble_loop(frs, i, cur_offset, message, cur_size) ==
    IF i > Len(frs) THEN [message |-> message, cur_size |-> cur_size]
    ELSE IF int(frs[i][5]) # cur_offset THEN None
    ELSE IF Len(frs[i]) < 8 THEN Raise("IndexError")
    ELSE IF ~IsInt(frs[i][6]) THEN Raise("ValueError")
    ELSE reassemble_loop(frs, i + 1, cur_offset + int(frs[i][6]),
                         message \o frs[i][8], cur_size + int(frs[i][6]))

\* reassemble_IP_packet(fragments): a packet dictionary, None, or the
\* exception that leaves the function.
reassemble_IP_packet(fragments) ==
    LET lists == [i \in 1..Len(fragments) |-> split(fragments[i], ",")] IN
    IF \E i \in 1..Len(lists) : Len(lists[i]) < 5 THEN Raise("IndexError")
    ELSE IF \E i \in 1..Len(lists) : ~IsInt(lists[i][5]) THEN Raise("ValueError")
    ELSE LET frs == sort_by_offset(lists) IN
    IF frs = <<>> THEN Raise("IndexError")
    ELSE IF int(frs[1][5]) # 0 THEN None
    ELSE IF Len(frs[Len(frs)]) < 7 THEN Raise("IndexError")
    ELSE IF ~IsInt(frs[Len(frs)][7]) THEN Raise("ValueError")
    ELSE IF int(frs[Len(frs)][7]) # 0 THEN None
    ELSE LET r == reassemble_loop(frs, 1, 0, <<>>, 0) IN
    IF "message" \notin DOMAIN r THEN r
    ELSE parse_packet(join([SubSeq(frs[1], 1, 7) EXCEPT ![6] = zfill(str(r.cur_size), 8)]
                            \o <<r.message>>, ","))

(***************************************************************************)
(* State                                                                   *)
(***************************************************************************)
VARIABLES
    fr_pc,          \* fragmentation pipeline: "input", "fragmented", "reassembled"
    fr_packet,      \* the packet dictionary handed to fragment_IP_packet
    fr_mtu,         \* the MTU handed to fragment_IP_packet
    fr_fragments,   \* the list fragment_IP_packet returned
    fr_arrival,     \* the wire records in the order the receiving hop buffered them
    fr_result       \* what reassemble_IP_packet returned for fr_arrival

VARIABLES
    variant,        \* the router program: "Forwarding", "Fragmentation" or "BGP"
    status,         \* "running"; "crashed" (an exception left run); "hung"
    route_list,     \* self.route_list: the lines of the routing table file
    fragment_dict,  \* self.fragment_dict: fragment ID -> buffered wire records
    asn_list,       \* self.asn_list: the learned AS paths (BGP router)
    h_in,           \* history: the datagram the last handler received
    h_out,          \* history: the datagrams the last handler sent, in order
    h_lookup,       \* history: the last check_routes call, table before and result
    h_matched,      \* history: the next hops returned so far, least recent first
    h_reasm,        \* history: the last reassemble_IP_packet call, argument and result
    h_bgp,          \* history: asn_list when run_BGP was entered, and the
                    \* payloads its selection rule has processed since
    h_did           \* history: the branch the last handler took

VARIABLES
    cd_pc,          \* codec: "dict", "wire", "parsed"
    cd_packet,      \* the dictionary handed to create_packet
    cd_wire,        \* the text create_packet returned
    cd_parsed       \* what parse_packet returned for cd_wire

VARIABLES
    nw_status,        \* network of routers: port -> status of the router thread
    nw_route_list,    \* port -> self.route_list
    nw_fragment_dict, \* port -> self.fragment_dict
    nw_asn_list,      \* port -> self.asn_list
    nw_flight,        \* the datagrams sent and not yet received (a bag)
    nw_sent,          \* history: the number of sendto calls of the routers
    nw_runs,          \* history: port -> the number of calls of run_BGP
    nw_received,      \* history: the number of datagrams recvfrom has returned
    nw_origin,        \* history: the packet or hello an end host injected
    nw_reassembled    \* history: port -> the messages the router printed as reassembled (a bag)

fragVars == <<fr_pc, fr_packet, fr_mtu, fr_fragments, fr_arrival, fr_result>>
routerVars == <<variant, status, route_list, fragment_dict, asn_list>>
histVars == <<h_in, h_out, h_lookup, h_matched, h_reasm, h_bgp, h_did>>
codecVars == <<cd_pc, cd_packet, cd_wire, cd_parsed>>
netVars ==
    <<nw_status, nw_route_list, nw_fragment_dict, nw_asn_list, nw_flight, nw_sent, nw_runs,
      nw_received, nw_origin, nw_reassembled>>
vars == <<fragVars, routerVars, histVars, codecVars, netVars>>

\* The parts of the state a specification does not use.
NoPipeline ==
    /\ fr_pc = "off" /\ fr_packet = None /\ fr_mtu = 0
    /\ fr_fragments = <<>> /\ fr_arrival = <<>> /\ fr_result = None
NoCodec ==
    /\ cd_pc = "off" /\ cd_packet = None /\ cd_wire = <<>> /\ cd_parsed = None
NoHistory ==
    /\ h_in = <<>> /\ h_out = <<>>
    /\ h_lookup = None /\ h_matched = <<>> /\ h_reasm = None
    /\ h_bgp = None
    /\ h_did = "none"
NoNetwork ==
    /\ nw_status = <<>> /\ nw_route_list = <<>> /\ nw_fragment_dict = <<>>
    /\ nw_asn_list = <<>> /\ nw_flight = EmptyBag /\ nw_sent = 0 /\ nw_runs = <<>> /\ nw_received = 0
    /\ nw_origin = None /\ nw_reassembled = <<>>
NoRouter ==
    /\ variant = "none" /\ status = "off" /\ route_list = <<>>
    /\ fragment_dict = <<>> /\ asn_list = <<>> /\ NoHistory

(***************************************************************************)
(* Fragmentation pipeline: a packet is fragmented for a link, the fragments *)
(* cross the wire in some order and are buffered and reassembled            *)
(***************************************************************************)
MaxPayload == 12
MinMTU == 25
MaxMTU == 40

Letters == <<"a", "b", "c", "d", "e", "f", "g", "h", "i", "j", "k", "l", "m",
             "n", "o", "p", "q", "r", "s", "t", "u", "v", "w", "x", "y", "z">>

\* A payload of n characters, each position its own letter; "accent" puts a
\* two-byte character at every third position.
Payload(n, style) ==
    [i \in 1..n |-> IF style = "accent" /\ i % 3 = 2 THEN "é"
                    ELSE Letters[((i - 1) % 26) + 1]]

\* A packet as a sender builds it: the size field is the payload's byte
\* length in 8 digits.
Packet(ip, port, ttl, id, offset, flag, message) ==
    [IP |-> S(ip), Port |-> I(port), TTL |-> I(ttl), ID |-> I(id), Offset |-> I(offset),
     Size |-> S(zfill(str(encoded_len(message)), 8)), Flag |-> I(flag), Message |-> S(message)]

IP_SHORT == <<":", ":", "1">>

\* The example of the specification: a 24-byte header and a 50-byte payload.
ExamplePacket == Packet(IP_SHORT, 80, 9, 7, 0, 0, Payload(50, "ascii"))

FragInputs ==
    {Packet(IP_SHORT, 80, 9, 7, offset, flag, Payload(n, style)) :
        offset \in {0, 16}, flag \in {0, 1}, n \in 0..MaxPayload, style \in {"ascii", "accent"}}

InitFrag ==
    /\ NoNetwork
    /\ fr_pc = "input"
    /\ \/ fr_packet \in FragInputs /\ fr_mtu \in MinMTU..MaxMTU
       \/ fr_packet = ExamplePacket /\ fr_mtu = 40
    /\ fr_fragments = <<>>
    /\ fr_arrival = <<>>
    /\ fr_result = None
    /\ NoRouter
    /\ NoCodec

\* The forwarding hop calls fragment_IP_packet(packet, route_mtu).
Fragment ==
    /\ fr_pc = "input"
    /\ FragmentTerminates(fr_packet, fr_mtu)
    /\ fr_fragments' = fragment_IP_packet(fr_packet, fr_mtu)
    /\ fr_pc' = "fragmented"
    /\ UNCHANGED <<fr_packet, fr_mtu, fr_arrival, fr_result, routerVars, histVars, codecVars, netVars>>

\* Arrival orders of n datagrams: each rotation of the emission order and its
\* reverse (datagrams are unordered).
rotate(seq, k) == [i \in 1..Len(seq) |-> seq[((i - 1 + k) % Len(seq)) + 1]]
reverse(seq) == [i \in 1..Len(seq) |-> seq[Len(seq) + 1 - i]]
ArrivalOrders(seq) ==
    IF seq = <<>> THEN {<<>>}
    ELSE {rotate(seq, k) : k \in 0..(Len(seq) - 1)} \cup {reverse(seq)}

\* The receiving hop: every datagram is decoded, buffered by
\* add_packet_to_dict as create_packet(packet), and the buffer handed to
\* reassemble_IP_packet once the last one is in.
Reassemble ==
    /\ fr_pc = "fragmented"
    /\ fr_fragments # <<>>
    /\ \E order \in ArrivalOrders(fr_fragments) :
        /\ fr_arrival' = [i \in 1..Len(order) |-> create_packet(parse_packet(order[i]))]
        /\ fr_result' = reassemble_IP_packet(fr_arrival')
    /\ fr_pc' = "reassembled"
    /\ UNCHANGED <<fr_packet, fr_mtu, fr_fragments, routerVars, histVars, codecVars, netVars>>

NextFrag == Fragment \/ Reassemble

SpecFrag == InitFrag /\ [][NextFrag]_vars

(***************************************************************************)
(* Properties of the fragmentation pipeline                                *)
(***************************************************************************)
\* The claims' precondition: the MTU leaves room for at least one payload byte.
MtuLeavesRoom == fr_mtu >= header_size_of(fr_packet) + 1
\* A whole message as a sender emits it: offset 0, no more fragments.
WholeMessage == fr_packet.Offset = I(0) /\ fr_packet.Flag = I(0)
WasSplit == fr_pc # "input" /\ encoded_len(create_packet(fr_packet)) > fr_mtu
Emitted(i) == parse_packet(fr_fragments[i])
RECURSIVE concat_payloads(_)
concat_payloads(frs) ==
    IF frs = <<>> THEN <<>> ELSE parse_packet(Head(frs)).Message[2] \o concat_payloads(Tail(frs))

\* C1: reassembling the fragments of a packet (MTU >= header size + 1) gives
\* a packet with the original payload and the original destination IP, port,
\* fragment ID, offset, size and flag.
C1_ReassemblyInverse ==
    (fr_pc = "reassembled" /\ MtuLeavesRoom /\ WholeMessage) =>
        /\ IsDict(fr_result)
        /\ fr_result.Message = fr_packet.Message
        /\ fr_result.IP = fr_packet.IP
        /\ fr_result.Port = fr_packet.Port
        /\ fr_result.ID = fr_packet.ID
        /\ fr_result.Offset = fr_packet.Offset
        /\ fr_result.Size = fr_packet.Size
        /\ fr_result.Flag = fr_packet.Flag

\* C2: every fragment emitted for a link (MTU >= header size + 1) has an
\* encoded size of at most MTU bytes.
C2_FragmentsFitMTU ==
    (fr_pc # "input" /\ MtuLeavesRoom) =>
        \A i \in 1..Len(fr_fragments) : encoded_len(fr_fragments[i]) <= fr_mtu

\* C8 (as stated): the example packet (24-byte header, 50-byte payload) and
\* MTU 40 give exactly two fragments, (offset 0, size 16, flag 1) and
\* (offset 16, size 34, flag 0).
C8_ExampleTwoFragments ==
    (fr_pc # "input" /\ fr_packet = ExamplePacket /\ fr_mtu = 40) =>
        /\ Len(fr_fragments) = 2
        /\ Emitted(1).Offset = I(0) /\ int(Emitted(1).Size[2]) = 16 /\ Emitted(1).Flag = I(1)
        /\ Emitted(2).Offset = I(16) /\ int(Emitted(2).Size[2]) = 34 /\ Emitted(2).Flag = I(0)

\* C8 (amended): the example packet and MTU 40 give exactly four fragments,
\* offsets 0, 16, 32, 48, sizes 16, 16, 16, 2, flags 1, 1, 1, 0, and their
\* reassembly in any arrival order has the original 50-byte payload.
ExampleShape == <<<<0, 16, 1>>, <<16, 16, 1>>, <<32, 16, 1>>, <<48, 2, 0>>>>
C8_ExampleFourFragments ==
    (fr_pc # "input" /\ fr_packet = ExamplePacket /\ fr_mtu = 40) =>
        /\ header_size_of(fr_packet) = 24
        /\ encoded_len(fr_packet.Message[2]) = 50
        /\ Len(fr_fragments) = 4
        /\ \A i \in 1..4 :
            /\ Emitted(i).Offset = I(ExampleShape[i][1])
            /\ Emitted(i).Size = S(zfill(str(ExampleShape[i][2]), 8))
            /\ Emitted(i).Flag = I(ExampleShape[i][3])
            /\ Emitted(i).Message =
                S(SubSeq(fr_packet.Message[2], ExampleShape[i][1] + 1,
                         ExampleShape[i][1] + ExampleShape[i][2]))
        /\ fr_pc = "reassembled" =>
            IsDict(fr_result) /\ fr_result.Message = fr_packet.Message

\* The example's fragments have been reassembled from an arrival order that
\* is not the emission order.
C8_Witness ==
    /\ fr_pc = "reassembled" /\ fr_packet = ExamplePacket /\ fr_mtu = 40
    /\ fr_arrival # fr_fragments
    /\ IsDict(fr_result)

\* C10: for a packet that is split, the fragments' payloads concatenated in
\* emission order are the original payload, and the last fragment's offset
\* plus its size is the total payload length (in bytes, or in characters).
C10_ChunksCoverPayload ==
    (WasSplit /\ MtuLeavesRoom /\ WholeMessage) =>
        /\ concat_payloads(fr_fragments) = fr_packet.Message[2]
        /\ LET last == Emitted(Len(fr_fragments)) IN
            last.Offset[2] + int(last.Size[2]) \in
                {encoded_len(fr_packet.Message[2]), Len(fr_packet.Message[2])}

\* The size field of fragment i is the length of its payload (in bytes, or in
\* characters).
SizeIsPayloadLength(i) ==
    int(Emitted(i).Size[2]) \in {encoded_len(Emitted(i).Message[2]), Len(Emitted(i).Message[2])}

\* C20: when a packet is split the first fragment has the packet's offset,
\* every later one the previous offset plus the previous size, every fragment
\* but the last has flag 1, the last has the packet's flag and every size
\* field is the payload length; a packet within the MTU is emitted unmodified
\* as the single element.
C20_FragmentShape ==
    (fr_pc # "input") =>
        IF WasSplit
        THEN LET n == Len(fr_fragments) IN
             /\ n >= 1
             /\ \A i \in 1..n : IsDict(Emitted(i)) /\ SizeIsPayloadLength(i)
             /\ Emitted(1).Offset = fr_packet.Offset
             /\ \A i \in 2..n :
                    Emitted(i).Offset[2] = Emitted(i - 1).Offset[2] + int(Emitted(i - 1).Size[2])
             /\ \A i \in 1..(n - 1) : Emitted(i).Flag[2] = 1
             /\ Emitted(n).Flag = fr_packet.Flag
        ELSE fr_fragments = <<create_packet(fr_packet)>>

(***************************************************************************)
(* Routing table lookup, range match with rotation (Forwarding and         *)
(* Fragmentation routers).  A table line is "ip low high hop_ip hop_port"  *)
(* followed, in the Fragmentation router, by the link MTU.                 *)
(***************************************************************************)
\* The for loop with the range's upper end left out.
RECURSIVE first_range_match_exclusive(_, _, _, _)
first_range_match_exclusive(list, i, ip, port) ==
    IF i > Len(list) THEN 0
    ELSE LET route == split(list[i], " ") IN
         IF ip = route[1] /\ int(route[2]) <= port /\ port < int(route[3]) THEN i
         ELSE first_range_match_exclusive(list, i + 1, ip, port)

\* The for loop: the index of the first line whose destination matches, or 0.
RECURSIVE first_range_match(_, _, _, _)
first_range_match(list, i, ip, port) ==
    IF i > Len(list) THEN 0
    ELSE LET route == split(list[i], " ") IN
         IF ip = route[1] /\ int(route[2]) <= port /\ port <= int(route[3]) THEN i
         ELSE first_range_match(list, i + 1, ip, port)

\* list.remove(x): the list without its first element equal to x.
RECURSIVE list_remove(_, _)
list_remove(list, x) ==
    IF list = <<>> THEN <<>>
    ELSE IF Head(list) = x THEN Tail(list)
    ELSE <<Head(list)>> \o list_remove(Tail(list), x)

\* check_routes of the Fragmentation router: the returned tuple (hop_ip,
\* hop_port, hop_mtu), or None, and the table it leaves.
check_routes(list, ip, port) ==
    LET k == first_range_match(list, 1, ip, port) IN
    IF k = 0 THEN [ret |-> None, route_list |-> list]
    ELSE LET route == split(list[k], " ")
             line == join(route, " ")
         IN  [ret |-> [hop_ip |-> route[4], hop_port |-> int(route[5]), hop_mtu |-> int(route[6])],
              route_list |-> Append(list_remove(list, line), line)]

(***************************************************************************)
(* The Fragmentation router's receive loop                                 *)
(***************************************************************************)
\* The router's own address (run_all.py starts router i on 127.0.0.1:8880+i).
LOOPBACK == <<"1", "2", "7", ".", "0", ".", "0", ".", "1">>
ROUTER_IP == LOOPBACK
ROUTER_PORT == 8881

\* sock.sendto(wire.encode(), (ip, port)), and the code path that sent it.
Sent(ip, port, wire, why) == [ip |-> ip, port |-> port, wire |-> wire, why |-> why]

\* A forward_packet that leaves the TTL as it came.
forward_packet_same_ttl(packet) == create_packet(packet)

\* forward_packet: the TTL is decremented and the packet encoded again.
forward_packet(packet) == create_packet([packet EXCEPT !.TTL = I(packet.TTL[2] - 1)])

\* add_packet_to_dict
add_packet_to_dict(dict, packet) ==
    LET id == packet.ID[2] IN
    IF id \notin DOMAIN dict THEN dict @@ (id :> <<create_packet(packet)>>)
    ELSE [dict EXCEPT ![id] = Append(@, create_packet(packet))]

dict_del(dict, id) == [k \in DOMAIN dict \ {id} |-> dict[k]]

\* Router.run without the test for TTL 0.
run_Fragmentation_at_no_ttl_test(ip, port, d, list, dict) ==
    LET idle == [status |-> "running", route_list |-> list, fragment_dict |-> dict,
                 out |-> <<>>, lookup |-> None, reasm |-> None, did |-> "drop"]
        packet == parse_packet(d)
    IN
    IF IsRaise(packet) THEN [idle EXCEPT !.status = "crashed", !.did = "raise"]
    ELSE IF packet.IP[2] = ip /\ packet.Port[2] = port
    THEN LET added == add_packet_to_dict(dict, packet)
             buffer == added[packet.ID[2]]
             reassembled_packet == reassemble_IP_packet(buffer)
             call == [fragments |-> buffer, ret |-> reassembled_packet]
         IN  IF IsRaise(reassembled_packet)
             THEN [idle EXCEPT !.status = "crashed", !.fragment_dict = added, !.reasm = call,
                               !.did = "raise"]
             ELSE IF reassembled_packet = None
             THEN [idle EXCEPT !.fragment_dict = added, !.reasm = call, !.did = "buffer"]
             ELSE [idle EXCEPT !.fragment_dict = dict_del(added, packet.ID[2]), !.reasm = call,
                               !.did = "deliver"]
    ELSE LET found == check_routes(list, packet.IP[2], packet.Port[2])
             route == found.ret
             call == [ip |-> packet.IP[2], port |-> packet.Port[2], before |-> list, ret |-> route]
         IN  IF route = None THEN [idle EXCEPT !.lookup = call, !.did = "noroute"]
             ELSE IF ~FragmentTerminates(packet, route.hop_mtu)
             THEN [idle EXCEPT !.status = "hung", !.route_list = found.route_list, !.lookup = call,
                               !.did = "hang"]
             ELSE LET fragments == fragment_IP_packet(packet, route.hop_mtu) IN
                  [idle EXCEPT !.route_list = found.route_list, !.lookup = call, !.did = "forward",
                        !.out = [i \in 1..Len(fragments) |->
                                    Sent(route.hop_ip, route.hop_port,
                                         forward_packet(parse_packet(fragments[i])), "forward")]]

\* One iteration of Router.run of the router at ip:port on datagram d: the
\* router's next state and what the iteration did.
run_Fragmentation_at(ip, port, d, list, dict) ==
    LET idle == [status |-> "running", route_list |-> list, fragment_dict |-> dict,
                 out |-> <<>>, lookup |-> None, reasm |-> None, did |-> "drop"]
        packet == parse_packet(d)
    IN
    IF IsRaise(packet) THEN [idle EXCEPT !.status = "crashed", !.did = "raise"]
    ELSE IF packet.TTL[2] = 0 THEN idle
    ELSE IF packet.IP[2] = ip /\ packet.Port[2] = port
    THEN LET added == add_packet_to_dict(dict, packet)
             buffer == added[packet.ID[2]]
             reassembled_packet == reassemble_IP_packet(buffer)
             call == [fragments |-> buffer, ret |-> reassembled_packet]
         IN  IF IsRaise(reassembled_packet)
             THEN [idle EXCEPT !.status = "crashed", !.fragment_dict = added, !.reasm = call,
                               !.did = "raise"]
             ELSE IF reassembled_packet = None
             THEN [idle EXCEPT !.fragment_dict = added, !.reasm = call, !.did = "buffer"]
             ELSE [idle EXCEPT !.fragment_dict = dict_del(added, packet.ID[2]), !.reasm = call,
                               !.did = "deliver"]
    ELSE LET found == check_routes(list, packet.IP[2], packet.Port[2])
             route == found.ret
             call == [ip |-> packet.IP[2], port |-> packet.Port[2], before |-> list, ret |-> route]
         IN  IF route = None THEN [idle EXCEPT !.lookup = call, !.did = "noroute"]
             ELSE IF ~FragmentTerminates(packet, route.hop_mtu)
             THEN [idle EXCEPT !.status = "hung", !.route_list = found.route_list, !.lookup = call,
                               !.did = "hang"]
             ELSE LET fragments == fragment_IP_packet(packet, route.hop_mtu) IN
                  [idle EXCEPT !.route_list = found.route_list, !.lookup = call, !.did = "forward",
                        !.out = [i \in 1..Len(fragments) |->
                                    Sent(route.hop_ip, route.hop_port,
                                         forward_packet(parse_packet(fragments[i])), "forward")]]

\* The router of the single-router specifications.
run_Fragmentation(d, list, dict) ==
    run_Fragmentation_at(ROUTER_IP, ROUTER_PORT, d, list, dict)

(***************************************************************************)
(* The Forwarding router: 3-field packets, no TTL, no fragments            *)
(***************************************************************************)
\* parse_packet of the Forwarding router
parse_packet_Forwarding(w) ==
    LET f == split(w, ",") IN
    IF Len(f) < 2 THEN Raise("IndexError")
    ELSE IF ~IsInt(f[2]) THEN Raise("ValueError")
    ELSE IF Len(f) < 3 THEN Raise("IndexError")
    ELSE [IP |-> S(f[1]), Port |-> I(int(f[2])), Message |-> S(f[3])]

\* create_packet of the Forwarding router
create_packet_Forwarding(p) == join(<<pystr(p.IP), pystr(p.Port), pystr(p.Message)>>, ",")

\* check_routes of the Forwarding router: the tuple (hop_ip, hop_port), or None.
check_routes_Forwarding(list, ip, port) ==
    LET k == first_range_match(list, 1, ip, port) IN
    IF k = 0 THEN [ret |-> None, route_list |-> list]
    ELSE LET route == split(list[k], " ")
             line == join(route, " ")
         IN  [ret |-> [hop_ip |-> route[4], hop_port |-> int(route[5])],
              route_list |-> Append(list_remove(list, line), line)]

\* One iteration of the Forwarding router's Router.run on datagram d.
run_Forwarding(d, list, dict) ==
    LET idle == [status |-> "running", route_list |-> list, fragment_dict |-> dict,
                 out |-> <<>>, lookup |-> None, reasm |-> None, did |-> "deliver"]
        packet == parse_packet_Forwarding(d)
    IN
    IF IsRaise(packet) THEN [idle EXCEPT !.status = "crashed", !.did = "raise"]
    ELSE IF packet.IP[2] = ROUTER_IP /\ packet.Port[2] = ROUTER_PORT THEN idle
    ELSE LET found == check_routes_Forwarding(list, packet.IP[2], packet.Port[2])
             route == found.ret
             call == [ip |-> packet.IP[2], port |-> packet.Port[2], before |-> list, ret |-> route]
         IN  IF route = None THEN [idle EXCEPT !.lookup = call, !.did = "noroute"]
             ELSE [idle EXCEPT !.route_list = found.route_list, !.lookup = call, !.did = "forward",
                        !.out = <<Sent(route.hop_ip, route.hop_port,
                                       create_packet_Forwarding(packet), "forward")>>]

(***************************************************************************)
(* The BGP router: path-vector propagation and exact-match forwarding.     *)
(* A table line is "dest_ip asn ... hop_ip hop_port mtu"; the AS path of a  *)
(* line is everything but its first and its last three fields, and its     *)
(* first element is the destination's port.                                *)
(***************************************************************************)
START_BGP == <<"S", "T", "A", "R", "T", "_", "B", "G", "P">>
BGP_ROUTES == <<"B", "G", "P", "_", "R", "O", "U", "T", "E", "S">>
END_ROUTES == <<"E", "N", "D", "_", "R", "O", "U", "T", "E", "S">>
NL == "\n"

\* sub in s
contains(s, sub) ==
    \E i \in 0..(Len(s) - Len(sub)) : SubSeq(s, i + 1, i + Len(sub)) = sub

\* route.split(' ')[1:-3]
asn_of(line) == LET f == split(line, " ") IN SubSeq(f, 2, Len(f) - 3)

\* generate_asn
generate_asn(list) == [i \in 1..Len(list) |-> asn_of(list[i])]

\* The text both create_BGP_message and the re-advertisement build from a
\* list of AS paths.
bgp_text(port, paths) ==
    join(<<BGP_ROUTES, str(port)>> \o [i \in 1..Len(paths) |-> join(paths[i], " ")] \o <<END_ROUTES>>, NL)

\* create_BGP_message: every line ends with a newline, so an empty table
\* gives "BGP_ROUTES\nport\nEND_ROUTES".
create_BGP_message(port, list) == bgp_text(port, generate_asn(list))

\* The re-advertisement of run_BGP: '\n'.join of the paths between the
\* header lines, so an empty asn_list leaves an empty line.
readvertise_text(port, paths) ==
    IF paths = <<>> THEN join(<<BGP_ROUTES, str(port), <<>>, END_ROUTES>>, NL)
    ELSE bgp_text(port, paths)

\* get_neighbors: (route[3], int(route[4])) of every line; ValueError when
\* a line's fifth field is not a number.
get_neighbors(list) ==
    IF \E i \in 1..Len(list) : Len(split(list[i], " ")) < 5 THEN Raise("IndexError")
    ELSE IF \E i \in 1..Len(list) : ~IsInt(split(list[i], " ")[5]) THEN Raise("ValueError")
    ELSE [neighbors |-> [i \in 1..Len(list) |->
            [ip |-> split(list[i], " ")[4], port |-> int(split(list[i], " ")[5])]]]

\* extract_BGP_routes
extract_BGP_routes(bgp_message) ==
    LET lines == split(bgp_message, NL) IN
    [i \in 1..(Len(lines) - 3) |-> split(lines[i + 2], " ")]

\* The dictionary of create_start_BGP; the ID is the string str(randrange(1000)).
start_BGP_dict(neighbor, id) ==
    [IP |-> S(neighbor.ip), Port |-> I(neighbor.port), TTL |-> I(20), ID |-> S(str(id)),
     Offset |-> I(0), Size |-> S(zfill(str(Len(START_BGP)), 8)), Flag |-> I(0),
     Message |-> S(START_BGP)]
create_start_BGP(neighbor, id) == create_packet(start_BGP_dict(neighbor, id))

\* The dictionary of create_BGP_routes and of the re-advertisement.
BGP_routes_dict(neighbor, id, bgp_routes) ==
    [IP |-> S(neighbor.ip), Port |-> I(neighbor.port), TTL |-> I(20), ID |-> S(str(id)),
     Offset |-> I(0), Size |-> S(zfill(str(Len(bgp_routes)), 8)), Flag |-> I(0),
     Message |-> S(bgp_routes)]
create_BGP_routes(neighbor, id, port, list) ==
    create_packet(BGP_routes_dict(neighbor, id, create_BGP_message(port, list)))

\* The selection rule of run_BGP for one received route: the table it
\* leaves and whether it modified it.
RECURSIVE index_of_origin(_, _, _)
index_of_origin(paths, i, origin) ==
    IF i > Len(paths) THEN 0
    ELSE IF paths[i][1] = origin THEN i
    ELSE index_of_origin(paths, i + 1, origin)

\* The selection rule replacing the held path by any path that is not longer.
select_route_not_longer(st, route, me) ==
    IF \E k \in 1..Len(route) : route[k] = me THEN st
    ELSE LET found_idx == index_of_origin(st.asn_list, 1, route[1])
             updated_route == Append(route, me)
         IN  IF found_idx = 0
             THEN [asn_list |-> Append(st.asn_list, updated_route), modified |-> TRUE]
             ELSE IF Len(updated_route) <= Len(st.asn_list[found_idx])
             THEN [asn_list |-> [st.asn_list EXCEPT ![found_idx] = updated_route], modified |-> TRUE]
             ELSE st

\* The selection rule with the self-check on the origin alone.
select_route_origin_check(st, route, me) ==
    IF route[1] = me THEN st
    ELSE LET found_idx == index_of_origin(st.asn_list, 1, route[1])
             updated_route == Append(route, me)
         IN  IF found_idx = 0
             THEN [asn_list |-> Append(st.asn_list, updated_route), modified |-> TRUE]
             ELSE IF Len(updated_route) < Len(st.asn_list[found_idx])
             THEN [asn_list |-> [st.asn_list EXCEPT ![found_idx] = updated_route], modified |-> TRUE]
             ELSE st

\* The selection rule adopting a received path as it came, without the
\* router's own identifier at its end.
select_route_unextended(st, route, me) ==
    IF \E k \in 1..Len(route) : route[k] = me THEN st
    ELSE LET found_idx == index_of_origin(st.asn_list, 1, route[1])
             updated_route == route
         IN  IF found_idx = 0
             THEN [asn_list |-> Append(st.asn_list, updated_route), modified |-> TRUE]
             ELSE IF Len(updated_route) + 1 < Len(st.asn_list[found_idx])
             THEN [asn_list |-> [st.asn_list EXCEPT ![found_idx] = updated_route], modified |-> TRUE]
             ELSE st

select_route(st, route, me) ==
    IF \E k \in 1..Len(route) : route[k] = me THEN st
    ELSE LET found_idx == index_of_origin(st.asn_list, 1, route[1])
             updated_route == Append(route, me)
         IN  IF found_idx = 0
             THEN [asn_list |-> Append(st.asn_list, updated_route), modified |-> TRUE]
             ELSE IF Len(updated_route) < Len(st.asn_list[found_idx])
             THEN [asn_list |-> [st.asn_list EXCEPT ![found_idx] = updated_route], modified |-> TRUE]
             ELSE st

\* The for loop over recv_routes.
RECURSIVE select_routes(_, _, _)
select_routes(st, recv_routes, me) ==
    IF recv_routes = <<>> THEN st
    ELSE select_routes(select_route(st, Head(recv_routes), me), Tail(recv_routes), me)

\* generate_routing_table: one line per learned path, resolved against the
\* local routes; dest is what the previous paths left in dest_ip, dest_port.
RECURSIVE first_route_with_asn(_, _, _)
first_route_with_asn(list, i, asn_id) ==
    IF i > Len(list) THEN 0
    ELSE IF asn_of(list[i])[1] = asn_id THEN i
    ELSE first_route_with_asn(list, i + 1, asn_id)

\* The resolution comparing the path's last element (the router itself)
\* with the local routes.
RECURSIVE routing_entries_last_element(_, _, _, _)
routing_entries_last_element(paths, i, list, dest) ==
    IF i > Len(paths) THEN [entries |-> <<>>]
    ELSE IF list # <<>> /\ Len(paths[i]) < 2 THEN Raise("IndexError")
    ELSE LET k == first_route_with_asn(list, 1, paths[i][Len(paths[i])])
             f == split(list[k], " ")
             now == IF k = 0 THEN dest ELSE <<f[Len(f) - 2], f[Len(f) - 1]>>
         IN  IF now = <<>> THEN Raise("UnboundLocalError")
             ELSE LET rest == routing_entries_last_element(paths, i + 1, list, now) IN
                  IF IsRaise(rest) THEN rest
                  ELSE [entries |->
                          <<join(<<LOOPBACK, join(paths[i], " "), now[1], now[2],
                                   <<"1", "0", "0", "0">>>>, " ")>> \o rest.entries]

RECURSIVE routing_entries(_, _, _, _)
routing_entries(paths, i, list, dest) ==
    IF i > Len(paths) THEN [entries |-> <<>>]
    ELSE IF list # <<>> /\ Len(paths[i]) < 2 THEN Raise("IndexError")
    ELSE LET k == first_route_with_asn(list, 1, paths[i][Len(paths[i]) - 1])
             f == split(list[k], " ")
             now == IF k = 0 THEN dest ELSE <<f[Len(f) - 2], f[Len(f) - 1]>>
         IN  IF now = <<>> THEN Raise("UnboundLocalError")
             ELSE LET rest == routing_entries(paths, i + 1, list, now) IN
                  IF IsRaise(rest) THEN rest
                  ELSE [entries |->
                          <<join(<<LOOPBACK, join(paths[i], " "), now[1], now[2],
                                   <<"1", "0", "0", "0">>>>, " ")>> \o rest.entries]
generate_routing_table(paths, list) == routing_entries(paths, 1, list, <<>>)

\* The for loop comparing the IP alone.
RECURSIVE first_exact_match_ip_only(_, _, _, _)
first_exact_match_ip_only(list, i, ip, port) ==
    IF i > Len(list) THEN 0
    ELSE LET route == split(list[i], " ") IN
         IF ip = route[1] THEN i
         ELSE first_exact_match_ip_only(list, i + 1, ip, port)

\* check_routes of the BGP router: exact match, the table is left as it is.
RECURSIVE first_exact_match(_, _, _, _)
first_exact_match(list, i, ip, port) ==
    IF i > Len(list) THEN 0
    ELSE LET route == split(list[i], " ") IN
         IF ip = route[1] /\ port = int(route[2]) THEN i
         ELSE first_exact_match(list, i + 1, ip, port)
check_routes_BGP(list, ip, port) ==
    LET k == first_exact_match(list, 1, ip, port) IN
    IF k = 0 THEN None
    ELSE LET route == split(list[k], " ") IN
         [hop_ip |-> route[Len(route) - 2], hop_port |-> int(route[Len(route) - 1]),
          hop_mtu |-> int(route[Len(route)])]

\* The successive values randrange(1000) returns during one iteration.
RandomIDs == {<<7, 417, 30, 999>>, <<0, 0, 5, 5>>}
randrange(ids, i) == ids[((i - 1) % Len(ids)) + 1]

\* The sends on entering run_BGP: to every neighbor a START_BGP packet, then
\* the advertisement of the table's paths.
RECURSIVE hello_sends(_, _, _, _, _)
hello_sends(neighbors, i, ids, port, list) ==
    IF i > Len(neighbors) THEN <<>>
    ELSE <<Sent(neighbors[i].ip, neighbors[i].port,
                create_start_BGP(neighbors[i], randrange(ids, 2 * i - 1)), "hello"),
           Sent(neighbors[i].ip, neighbors[i].port,
                create_BGP_routes(neighbors[i], randrange(ids, 2 * i), port, list), "advert")>>
         \o hello_sends(neighbors, i + 1, ids, port, list)

\* The re-advertisement reaching the first neighbor alone.
advert_sends_first_only(neighbors, ids, port, paths) ==
    [i \in 1..(IF Len(neighbors) = 0 THEN 0 ELSE 1) |->
        Sent(neighbors[i].ip, neighbors[i].port,
             create_packet(BGP_routes_dict(neighbors[i], randrange(ids, i), readvertise_text(port, paths))),
             "advert")]

\* The sends after a receive cycle that modified asn_list.
advert_sends(neighbors, ids, port, paths) ==
    [i \in 1..Len(neighbors) |->
        Sent(neighbors[i].ip, neighbors[i].port,
             create_packet(BGP_routes_dict(neighbors[i], randrange(ids, i), readvertise_text(port, paths))),
             "advert")]

\* Router.run with the TTL test ahead of the START_BGP test.
run_BGP_router_ttl_first(d, list, ids) ==
    LET idle == [status |-> "running", out |-> <<>>, lookup |-> None, did |-> "drop"]
        packet == parse_packet(d)
    IN
    IF IsRaise(packet) THEN [idle EXCEPT !.status = "crashed", !.did = "raise"]
    ELSE IF packet.TTL[2] = 0 THEN idle
    ELSE IF contains(packet.Message[2], START_BGP)
    THEN LET neighbors == get_neighbors(list) IN
         IF IsRaise(neighbors) THEN [idle EXCEPT !.status = "crashed", !.did = "run_BGP"]
         ELSE [idle EXCEPT !.status = "converging", !.did = "run_BGP",
                    !.out = hello_sends(neighbors.neighbors, 1, ids, ROUTER_PORT, list)]
    ELSE IF packet.IP[2] = ROUTER_IP /\ packet.Port[2] = ROUTER_PORT
    THEN [idle EXCEPT !.did = "deliver"]
    ELSE LET route == check_routes_BGP(list, packet.IP[2], packet.Port[2])
             call == [ip |-> packet.IP[2], port |-> packet.Port[2], before |-> list, ret |-> route]
         IN  IF route = None THEN [idle EXCEPT !.lookup = call, !.did = "noroute"]
             ELSE [idle EXCEPT !.lookup = call, !.did = "forward",
                        !.out = <<Sent(route.hop_ip, route.hop_port, forward_packet(packet), "forward")>>]

\* One iteration of the BGP router's Router.run on datagram d.  A payload
\* holding START_BGP calls run_BGP, whose first sends happen here and whose
\* receive loop is the state "converging".
run_BGP_router_at(ip, port, d, list, ids) ==
    LET idle == [status |-> "running", out |-> <<>>, lookup |-> None, did |-> "drop"]
        packet == parse_packet(d)
    IN
    IF IsRaise(packet) THEN [idle EXCEPT !.status = "crashed", !.did = "raise"]
    ELSE IF contains(packet.Message[2], START_BGP)
    THEN LET neighbors == get_neighbors(list) IN
         IF IsRaise(neighbors) THEN [idle EXCEPT !.status = "crashed", !.did = "run_BGP"]
         ELSE [idle EXCEPT !.status = "converging", !.did = "run_BGP",
                    !.out = hello_sends(neighbors.neighbors, 1, ids, port, list)]
    ELSE IF packet.TTL[2] = 0 THEN idle
    ELSE IF packet.IP[2] = ip /\ packet.Port[2] = port
    THEN [idle EXCEPT !.did = "deliver"]
    ELSE LET route == check_routes_BGP(list, packet.IP[2], packet.Port[2])
             call == [ip |-> packet.IP[2], port |-> packet.Port[2], before |-> list, ret |-> route]
         IN  IF route = None THEN [idle EXCEPT !.lookup = call, !.did = "noroute"]
             ELSE [idle EXCEPT !.lookup = call, !.did = "forward",
                        !.out = <<Sent(route.hop_ip, route.hop_port, forward_packet(packet), "forward")>>]
run_BGP_router(d, list, ids) == run_BGP_router_at(ROUTER_IP, ROUTER_PORT, d, list, ids)

\* The except branch of run_BGP: the derived table is written and read back.
finish_BGP(list, paths) ==
    LET table == generate_routing_table(paths, list) IN
    IF IsRaise(table) THEN [status |-> "crashed", route_list |-> list]
    ELSE [status |-> "running", route_list |-> table.entries]

\* One iteration of run_BGP's receive loop on datagram d.
run_BGP_at(port, d, list, paths, ids) ==
    LET idle == [status |-> "converging", route_list |-> list, asn_list |-> paths,
                 out |-> <<>>, selected |-> FALSE, did |-> "hello"]
        packet == parse_packet(d)
    IN
    IF IsRaise(packet)
    THEN [idle EXCEPT !.status = finish_BGP(list, paths).status,
                      !.route_list = finish_BGP(list, paths).route_list,
                      !.did = "except"]
    ELSE IF packet.Message[2] = START_BGP THEN idle
    ELSE LET st == select_routes([asn_list |-> paths, modified |-> FALSE],
                                 extract_BGP_routes(packet.Message[2]), str(port))
         IN  IF st.modified
             THEN [idle EXCEPT !.asn_list = st.asn_list, !.selected = TRUE,
                        !.did = "select",
                        !.out = advert_sends(get_neighbors(list).neighbors, ids, port, st.asn_list)]
             ELSE [idle EXCEPT !.selected = TRUE, !.did = "select"]
run_BGP(d, list, paths, ids) == run_BGP_at(ROUTER_PORT, d, list, paths, ids)

(***************************************************************************)
(* Actions                                                                 *)
(***************************************************************************)
\* The next hops returned so far, least recently returned first.
note_match(matched, call) ==
    IF call = None \/ call.ret = None THEN matched
    ELSE Append(SelectSeq(matched, LAMBDA h : h # call.ret.hop_port), call.ret.hop_port)

\* The router receives datagram d (recvfrom returns it) and runs one
\* iteration of its loop.
Receive(d) ==
    /\ status = "running"
    /\ variant \in {"Forwarding", "Fragmentation"}
    /\ \E r \in {IF variant = "Forwarding" THEN run_Forwarding(d, route_list, fragment_dict)
                  ELSE run_Fragmentation(d, route_list, fragment_dict)} :
        /\ status' = r.status
        /\ route_list' = r.route_list
        /\ fragment_dict' = r.fragment_dict
        /\ h_in' = d
        /\ h_out' = r.out
        /\ h_lookup' = IF r.lookup = None THEN None
                       ELSE [ip |-> r.lookup.ip, port |-> r.lookup.port,
                             before |-> r.lookup.before, ret |-> r.lookup.ret,
                             matched_before |-> h_matched]
        /\ h_matched' = note_match(h_matched, r.lookup)
        /\ h_reasm' = r.reasm
        /\ h_did' = r.did
    /\ UNCHANGED <<variant, asn_list, h_bgp, fragVars, codecVars, netVars>>

\* sock.sendto to a host that is not a dotted address (a path element that
\* get_neighbors took for one): the resolver reads it as a 32-bit address, and
\* the send succeeds or raises OSError as the host's routes have it.
IsAddress(ip) == \E i \in 1..Len(ip) : ip[i] = "."
SendOutcomes(out) ==
    IF \A i \in 1..Len(out) : IsAddress(out[i].ip) THEN {TRUE} ELSE BOOLEAN
RECURSIVE sent_before_error(_)
sent_before_error(out) ==
    IF out = <<>> \/ ~IsAddress(Head(out).ip) THEN <<>>
    ELSE <<Head(out)>> \o sent_before_error(Tail(out))

\* The BGP router receives datagram d in Router.run.
ReceiveBGP(d) ==
    /\ status = "running"
    /\ variant = "BGP"
    /\ \E ids \in RandomIDs :
        \E r \in {run_BGP_router(d, route_list, ids)} : \E sent \in SendOutcomes(r.out) :
        /\ status' = IF sent THEN r.status ELSE "crashed"
        /\ h_in' = d
        /\ h_out' = IF sent THEN r.out ELSE sent_before_error(r.out)
        /\ h_lookup' = IF r.lookup = None THEN None
                       ELSE [ip |-> r.lookup.ip, port |-> r.lookup.port,
                             before |-> r.lookup.before, ret |-> r.lookup.ret,
                             matched_before |-> h_matched]
        /\ h_bgp' = IF r.status = "converging" /\ sent
                    THEN [base |-> asn_list, delivered |-> {}] ELSE h_bgp
        /\ h_did' = r.did
    /\ UNCHANGED <<variant, route_list, fragment_dict, asn_list, h_matched, h_reasm, fragVars, codecVars, netVars>>

\* The BGP router receives datagram d in run_BGP, within the idle timeout.
ReceiveConverging(d) ==
    /\ status = "converging"
    /\ \E ids \in RandomIDs :
        \E r \in {run_BGP(d, route_list, asn_list, ids)} : \E sent \in SendOutcomes(r.out) :
        /\ status' = IF sent THEN r.status ELSE "crashed"
        /\ route_list' = r.route_list
        /\ asn_list' = r.asn_list
        /\ h_in' = d
        /\ h_out' = IF sent THEN r.out ELSE sent_before_error(r.out)
        /\ h_bgp' = IF r.selected
                    THEN [h_bgp EXCEPT !.delivered = @ \cup {parse_packet(d).Message[2]}]
                    ELSE h_bgp
        /\ h_did' = r.did
    /\ h_lookup' = None
    /\ UNCHANGED <<variant, fragment_dict, h_matched, h_reasm, fragVars, codecVars, netVars>>

\* No datagram arrives within the idle timeout of run_BGP.
Timeout ==
    /\ status = "converging"
    /\ \E r \in {finish_BGP(route_list, asn_list)} :
        /\ status' = r.status
        /\ route_list' = r.route_list
    /\ h_in' = <<>>
    /\ h_out' = <<>>
    /\ h_lookup' = None
    /\ h_did' = "timeout"
    /\ UNCHANGED <<variant, fragment_dict, asn_list, h_matched, h_reasm, h_bgp, fragVars, codecVars, netVars>>

(***************************************************************************)
(* Reassembly at the destination: any fragments addressed to the router    *)
(* arrive, in any order, with repetitions                                  *)
(***************************************************************************)
MaxBuffered == 3

\* A table line of the Fragmentation router.
RouteLine(ip, low, high, hop_ip, hop_port, mtu) ==
    join(<<ip, str(low), str(high), hop_ip, str(hop_port), str(mtu)>>, " ")

IP_A == <<"1", "0", ".", "0", ".", "0", ".", "5">>
IP_B == <<"1", "0", ".", "0", ".", "0", ".", "6">>
IP_C == <<"1", "0", ".", "0", ".", "0", ".", "7">>
IP_HOP == <<"1", "0", ".", "0", ".", "0", ".", "9">>

\* Fragments of a message for the router itself: valid pieces (two bytes
\* each at offsets 0, 2, 4, either flag), a piece that overlaps the next
\* (size 4), and pieces whose size field is not a number.
FragmentWire(offset, size, flag) ==
    create_packet([IP |-> S(ROUTER_IP), Port |-> I(ROUTER_PORT), TTL |-> I(5), ID |-> I(7),
                   Offset |-> I(offset), Size |-> S(size), Flag |-> I(flag),
                   Message |-> S(SubSeq(Letters, offset + 1, offset + 2))])
LocalFragments ==
    {FragmentWire(offset, zfill(str(2), 8), flag) : offset \in {0, 2, 4}, flag \in {0, 1}}
    \cup {FragmentWire(0, zfill(str(4), 8), 1),
          FragmentWire(0, <<"x">>, 1),
          FragmentWire(2, <<"x">>, 0)}

InitReasm ==
    /\ NoNetwork
    /\ variant = "Fragmentation"
    /\ status = "running"
    /\ route_list = <<RouteLine(IP_A, 5000, 5010, IP_HOP, 6000, 500)>>
    /\ fragment_dict = <<>>
    /\ asn_list = <<>>
    /\ NoHistory
    /\ NoPipeline
    /\ NoCodec

\* A fragment arrives while the buffers hold fewer than MaxBuffered records.
ReceiveFragment ==
    \E d \in LocalFragments :
        /\ \A id \in DOMAIN fragment_dict : Len(fragment_dict[id]) < MaxBuffered
        /\ Receive(d)

NextReasm == ReceiveFragment

SpecReasm == InitReasm /\ [][NextReasm]_vars

(***************************************************************************)
(* Properties of reassembly                                                *)
(***************************************************************************)
\* The fragment set of the last reassemble_IP_packet call, read field by field.
FragOffset(B, i) == int(split(B[i], ",")[5])
FragSize(B, i) == split(B[i], ",")[6]
FragFlag(B, i) == int(split(B[i], ",")[7])
\* Offset order: by offset, fragments of equal offset in arrival order.
ComesBefore(B, j, i) ==
    FragOffset(B, j) < FragOffset(B, i) \/ (FragOffset(B, j) = FragOffset(B, i) /\ j < i)
RECURSIVE SizesBefore(_, _, _)
SizesBefore(B, i, j) ==
    IF j > Len(B) THEN 0
    ELSE (IF ComesBefore(B, j, i) THEN int(FragSize(B, j)) ELSE 0) + SizesBefore(B, i, j + 1)
NoOffsetZero(B) == \A i \in 1..Len(B) : FragOffset(B, i) # 0
LastHasMoreFragments(B) ==
    \E i \in 1..Len(B) :
        /\ \A j \in 1..Len(B) \ {i} : ComesBefore(B, j, i)
        /\ FragFlag(B, i) # 0
GapOrOverlap(B) ==
    \E i \in 1..Len(B) :
        /\ \A j \in 1..Len(B) : ComesBefore(B, j, i) => IsInt(FragSize(B, j))
        /\ FragOffset(B, i) # SizesBefore(B, i, 1)

\* C3: reassemble_IP_packet returns None, raises nothing and yields no
\* message for every non-empty fragment set with no fragment at offset 0, or
\* whose highest-offset fragment has a flag other than 0, or with a fragment
\* whose offset is not the sum of the sizes before it in offset order.
C3_RejectsInvalidSets ==
    (h_reasm # None /\ h_reasm.fragments # <<>>
        /\ (\/ NoOffsetZero(h_reasm.fragments)
            \/ LastHasMoreFragments(h_reasm.fragments)
            \/ GapOrOverlap(h_reasm.fragments))) =>
        /\ h_reasm.ret = None
        /\ status = "running"
        /\ 7 \in DOMAIN fragment_dict /\ fragment_dict[7] = h_reasm.fragments

\* A set with its first fragment at offset 0 and its last fragment flagged 0,
\* rejected for a gap or an overlap alone.
C3_Witness ==
    /\ h_reasm # None /\ Len(h_reasm.fragments) >= 2
    /\ ~NoOffsetZero(h_reasm.fragments)
    /\ ~LastHasMoreFragments(h_reasm.fragments)
    /\ GapOrOverlap(h_reasm.fragments)
    /\ h_reasm.ret = None /\ status = "running"

\* The fragments of B at the indices Ix are the distinct fragments of one
\* message: numeric sizes, each offset the sum of the sizes at the lower
\* offsets, flag 0 on the fragment of highest offset and on no other.
RECURSIVE SizesBelow(_, _, _)
SizesBelow(B, Ix, offset) ==
    IF Ix = {} THEN 0
    ELSE LET j == CHOOSE j \in Ix : TRUE IN
         (IF FragOffset(B, j) < offset THEN int(FragSize(B, j)) ELSE 0)
             + SizesBelow(B, Ix \ {j}, offset)
CompleteMessage(B, Ix) ==
    /\ Ix # {}
    /\ \A i \in Ix : IsInt(FragSize(B, i))
    /\ \A i, j \in Ix : i # j => FragOffset(B, i) # FragOffset(B, j)
    /\ \A i \in Ix : FragOffset(B, i) = SizesBelow(B, Ix, FragOffset(B, i))
    /\ \A i \in Ix : (FragFlag(B, i) = 0) <=> (\A j \in Ix : FragOffset(B, j) <= FragOffset(B, i))
\* The rest of the buffer repeats fragments of the message.
OthersAreDuplicates(B, Ix) == \A k \in (1..Len(B)) \ Ix : \E i \in Ix : B[k] = B[i]
\* The rest of the buffer arrived before the message: what an earlier,
\* incomplete message of the same ID left behind.
OthersAreStale(B, Ix) == \A k \in (1..Len(B)) \ Ix : \A i \in Ix : k < i

\* C27: when the buffer of a fragment ID holds all distinct fragments of a
\* message, together with duplicates of them or with the fragments an
\* earlier incomplete message of the same ID left, the message is
\* reassembled and the buffer deleted.
C27_DuplicatesAndStaleTolerated ==
    h_reasm # None =>
        \A Ix \in SUBSET (1..Len(h_reasm.fragments)) :
            (/\ CompleteMessage(h_reasm.fragments, Ix)
             /\ \/ OthersAreDuplicates(h_reasm.fragments, Ix)
                \/ OthersAreStale(h_reasm.fragments, Ix)) =>
                /\ IsDict(h_reasm.ret)
                /\ fragment_dict = <<>>

\* The same without duplicates and stale fragments: a buffer that holds the
\* distinct fragments of one message and nothing else.
ExactlyTheMessageDelivered ==
    (h_reasm # None /\ CompleteMessage(h_reasm.fragments, 1..Len(h_reasm.fragments))) =>
        IsDict(h_reasm.ret) /\ fragment_dict = <<>>

(***************************************************************************)
(* One router of each kind and the datagrams that reach it                 *)
(***************************************************************************)
\* Table lines of the Forwarding and of the BGP router.
RouteLine_Forwarding(ip, low, high, hop_ip, hop_port) ==
    join(<<ip, str(low), str(high), hop_ip, str(hop_port)>>, " ")
RouteLine_BGP(ip, asn, hop_ip, hop_port, mtu) ==
    join(<<ip>> \o asn \o <<hop_ip, str(hop_port), str(mtu)>>, " ")

\* Range-match entries: three for destination A with overlapping ranges (two
\* of them the same range), one for destination B.  The next-hop ports tell
\* the entries apart; the link of the second entry is too small for any
\* header.
RangeEntries ==
    <<[ip |-> IP_A, low |-> 5000, high |-> 5010, hop_port |-> 6000, mtu |-> 500],
      [ip |-> IP_A, low |-> 5005, high |-> 5020, hop_port |-> 6001, mtu |-> 30],
      [ip |-> IP_B, low |-> 5000, high |-> 5010, hop_port |-> 6002, mtu |-> 36],
      [ip |-> IP_A, low |-> 5000, high |-> 5010, hop_port |-> 6003, mtu |-> 40]>>
RangeTable(kind, order) ==
    [i \in 1..Len(order) |->
        LET e == RangeEntries[order[i]] IN
        IF kind = "Forwarding" THEN RouteLine_Forwarding(e.ip, e.low, e.high, IP_HOP, e.hop_port)
        ELSE RouteLine(e.ip, e.low, e.high, IP_HOP, e.hop_port, e.mtu)]
TableOrders == {<<1, 2, 3, 4>>, <<4, 3, 2, 1>>}

\* Data packets: destinations inside, at the edges of and outside the ranges.
DestPorts == {4999, 5000, 5007, 5010, 5020, 5021}
DataWire(ip, port, ttl, message) == create_packet(Packet(ip, port, ttl, 7, 0, 0, message))
\* Datagrams parse_packet does not accept: too few fields, and a TTL that is
\* not a number.
Malformed == <<"x">>
NonNumericTTL ==
    create_packet([Packet(IP_A, 5000, 9, 7, 0, 0, Payload(2, "ascii")) EXCEPT !.TTL = S(<<"a">>)])
Datagrams_Forwarding ==
    {create_packet_Forwarding([IP |-> S(ip), Port |-> I(port), Message |-> S(Payload(2, "ascii"))]) :
        ip \in {IP_A, IP_B, IP_C}, port \in DestPorts}
    \cup {create_packet_Forwarding([IP |-> S(ROUTER_IP), Port |-> I(ROUTER_PORT),
                                    Message |-> S(Payload(2, "ascii"))])}
    \cup {Malformed}
Datagrams_Fragmentation ==
    {DataWire(ip, port, 10, Payload(2, "ascii")) : ip \in {IP_A, IP_B, IP_C}, port \in DestPorts}
    \cup {DataWire(ip, 5007, ttl, Payload(12, "ascii")) : ip \in {IP_A, IP_B}, ttl \in {0, 1, 10}}
    \cup {DataWire(ROUTER_IP, ROUTER_PORT, ttl, Payload(2, "ascii")) : ttl \in {0, 1}}
    \cup {Malformed, NonNumericTTL}

\* The BGP router 8881 has the neighbors 8882 and 8883; 8884 and 8885 lie
\* behind them.
AS(n) == str(ROUTER_PORT + n)
BGPTable ==
    <<RouteLine_BGP(LOOPBACK, <<AS(1), AS(0)>>, LOOPBACK, ROUTER_PORT + 1, 1000),
      RouteLine_BGP(LOOPBACK, <<AS(2), AS(0)>>, LOOPBACK, ROUTER_PORT + 2, 1000)>>
Me == [ip |-> ROUTER_IP, port |-> ROUTER_PORT]
AdvertWire(sender, paths) ==
    create_packet(BGP_routes_dict(Me, 7, bgp_text(ROUTER_PORT + sender, paths)))
\* Advertisements, in a fixed order of reference: two equal-length paths to
\* 8884, a long and a short path to 8885, and a path through this router.
AdvertList ==
    <<AdvertWire(1, <<<<AS(0), AS(1)>>, <<AS(3), AS(1)>>>>),
      AdvertWire(2, <<<<AS(0), AS(2)>>, <<AS(3), AS(2)>>>>),
      AdvertWire(1, <<<<AS(4), AS(3), AS(1)>>, <<AS(2), AS(1)>>>>),
      AdvertWire(2, <<<<AS(4), AS(2)>>>>),
      AdvertWire(1, <<<<AS(5), AS(0), AS(1)>>>>)>>
Adverts == {AdvertList[i] : i \in 1..Len(AdvertList)}
HelloWire(ttl) == create_packet([start_BGP_dict(Me, 7) EXCEPT !.TTL = I(ttl)])
Datagrams_BGP ==
    Adverts
    \cup {HelloWire(20), HelloWire(0)}
    \cup {create_start_BGP([ip |-> LOOPBACK, port |-> ROUTER_PORT + 1], 7)}
    \cup {DataWire(ROUTER_IP, ROUTER_PORT, 0, Payload(2, "ascii"))}
    \cup {DataWire(LOOPBACK, ROUTER_PORT + 1, ttl, Payload(2, "ascii")) : ttl \in {0, 1, 10}}
    \cup {DataWire(LOOPBACK, ROUTER_PORT + n, 10, Payload(2, "ascii")) : n \in {3, 6}}
    \cup {DataWire(ROUTER_IP, ROUTER_PORT, 1, Payload(2, "ascii"))}
    \cup {Malformed, NonNumericTTL}

Init ==
    /\ NoNetwork
    /\ variant \in {"Forwarding", "Fragmentation", "BGP"}
    /\ status = "running"
    /\ route_list \in IF variant = "BGP" THEN {BGPTable}
                      ELSE {RangeTable(variant, order) : order \in TableOrders}
    /\ fragment_dict = <<>>
    /\ asn_list = IF variant = "BGP" THEN generate_asn(route_list) ELSE <<>>
    /\ NoHistory
    /\ NoPipeline
    /\ NoCodec

ReceiveData ==
    \E d \in IF variant = "Forwarding" THEN Datagrams_Forwarding ELSE Datagrams_Fragmentation :
        Receive(d)
ReceiveRunning == \E d \in Datagrams_BGP : ReceiveBGP(d)
ReceiveInBGP == \E d \in Datagrams_BGP : ReceiveConverging(d)

Next == ReceiveData \/ ReceiveRunning \/ ReceiveInBGP \/ Timeout

Spec == Init /\ [][Next]_vars

(***************************************************************************)
(* Properties of the routers                                               *)
(***************************************************************************)
\* The datagrams the last handler sent on its forwarding path.
Forwarded == {i \in 1..Len(h_out) : h_out[i].why = "forward"}
TTLCarrying == variant \in {"Fragmentation", "BGP"}

\* C4: in the routers whose packets carry a TTL, a received packet with TTL 0
\* is transmitted to no next hop, and every packet or fragment transmitted
\* when forwarding carries the incoming packet's TTL minus one.
C4_TTLDecrement ==
    (TTLCarrying /\ Forwarded # {}) =>
        LET incoming == parse_packet(h_in) IN
        /\ IsDict(incoming)
        /\ incoming.TTL[2] # 0
        /\ \A i \in Forwarded :
              LET sent == parse_packet(h_out[i].wire) IN
              IsDict(sent) /\ sent.TTL[2] = incoming.TTL[2] - 1

\* A packet with TTL 1 was fragmented and every fragment left with TTL 0.
C4_Witness ==
    /\ variant = "Fragmentation"
    /\ Len(h_out) >= 2 /\ Forwarded = 1..Len(h_out)
    /\ parse_packet(h_in).TTL[2] = 1
    /\ \A i \in Forwarded : parse_packet(h_out[i].wire).TTL[2] = 0

\* The advertisements of AdvertList as the selection rule reads them.
AdvertMessages == [i \in 1..Len(AdvertList) |-> parse_packet(AdvertList[i]).Message[2]]
\* The payloads delivered since run_BGP was entered, in the order of AdvertList.
InListOrder(delivered) == SelectSeq(AdvertMessages, LAMBDA m : m \in delivered)
\* The table the selection rule builds from base when payloads arrive in this order.
RECURSIVE TableAfter(_, _)
TableAfter(base, messages) ==
    IF messages = <<>> THEN base
    ELSE TableAfter(select_routes([asn_list |-> base, modified |-> FALSE],
                                  extract_BGP_routes(Head(messages)), str(ROUTER_PORT)).asn_list,
                    Tail(messages))
\* The entry a table holds for an origin (the first one), or <<>>.
PathTo(paths, origin) ==
    LET k == index_of_origin(paths, 1, origin) IN IF k = 0 THEN <<>> ELSE paths[k]
Origins(paths) == {paths[k][1] : k \in 1..Len(paths)}

\* C5: for a fixed set of advertisements delivered in CONVERGING, the table
\* holds for each origin the same path whatever the order of delivery: the
\* path it holds after delivery in the order of AdvertList.
C5_SamePathAnyOrder ==
    (status = "converging") =>
        LET reference == TableAfter(h_bgp.base, InListOrder(h_bgp.delivered)) IN
        /\ Origins(asn_list) = Origins(reference)
        /\ \A o \in Origins(asn_list) : PathTo(asn_list, o) = PathTo(reference, o)

\* What the selection rule does guarantee: the same origins, each with a
\* path of the same length, whatever the order of delivery.
SameLengthAnyOrder ==
    (status = "converging") =>
        LET reference == TableAfter(h_bgp.base, InListOrder(h_bgp.delivered)) IN
        /\ Origins(asn_list) = Origins(reference)
        /\ \A o \in Origins(asn_list) : Len(PathTo(asn_list, o)) = Len(PathTo(reference, o))

\* The AS paths a datagram advertises.
ReceivedRoutes(w) ==
    LET packet == parse_packet(w) IN
    IF IsRaise(packet) THEN {}
    ELSE LET routes == extract_BGP_routes(packet.Message[2]) IN {routes[k] : k \in 1..Len(routes)}
HasElement(route, id) == \E k \in 1..Len(route) : route[k] = id

\* C6: a received AS path that holds the router's own identifier at any
\* position is never adopted and never replaces an entry: every entry a step
\* adds to or changes in asn_list is a received path without the identifier,
\* with the identifier appended.
C6_LoopSuppression ==
    [][\A k \in 1..Len(asn_list') :
          (k > Len(asn_list) \/ asn_list'[k] # asn_list[k]) =>
              \E route \in ReceivedRoutes(h_in') :
                  /\ ~HasElement(route, str(ROUTER_PORT))
                  /\ asn_list'[k] = Append(route, str(ROUTER_PORT))]_vars

\* An advertisement with a path through this router and a path to a new
\* origin was processed: the new origin was adopted, the other path was not.
C6_Witness ==
    /\ status = "converging"
    /\ \E route \in ReceivedRoutes(h_in) : HasElement(route, str(ROUTER_PORT))
    /\ Len(h_out) > 0
    /\ \A k \in 1..Len(asn_list) :
          ~HasElement(SubSeq(asn_list[k], 1, Len(asn_list[k]) - 1), str(ROUTER_PORT))

\* An entry of a range-match table, read from its line.
EntryOf(line) ==
    LET f == split(line, " ") IN
    [ip |-> f[1], low |-> int(f[2]), high |-> int(f[3]), hop_ip |-> f[4], hop_port |-> int(f[5])]
Eligible(line, ip, port) ==
    EntryOf(line).ip = ip /\ EntryOf(line).low <= port /\ port <= EntryOf(line).high
\* How recently an entry was matched: 0 for never, else its place in h_matched.
Recency(matched, line) ==
    IF \E i \in 1..Len(matched) : matched[i] = EntryOf(line).hop_port
    THEN CHOOSE i \in 1..Len(matched) : matched[i] = EntryOf(line).hop_port
    ELSE 0
IsPermutation(a, b) ==
    /\ Len(a) = Len(b)
    /\ \E f \in [1..Len(a) -> 1..Len(a)] :
          /\ \A i, j \in 1..Len(a) : i # j => f[i] # f[j]
          /\ \A i \in 1..Len(a) : a[i] = b[f[i]]
RangeMatching == variant \in {"Forwarding", "Fragmentation"}

\* C9: a range-match lookup returns the next hop of the first entry, in table
\* order, whose IP is the destination's and whose inclusive range holds the
\* port, and moves that entry alone to the end; the table stays a permutation
\* of the initial entries and the entry returned is the least recently
\* matched of the eligible ones.  With no eligible entry it returns None and
\* leaves the table.
C9_FirstMatchRotates ==
    (RangeMatching /\ h_lookup # None) =>
        LET before == h_lookup.before
            eligible == {i \in 1..Len(before) : Eligible(before[i], h_lookup.ip, h_lookup.port)}
        IN  /\ IsPermutation(route_list, RangeTable(variant, <<1, 2, 3, 4>>))
            /\ IF eligible = {}
               THEN h_lookup.ret = None /\ route_list = before
               ELSE LET k == CHOOSE i \in eligible : \A j \in eligible : i <= j IN
                    /\ h_lookup.ret # None
                    /\ h_lookup.ret.hop_ip = EntryOf(before[k]).hop_ip
                    /\ h_lookup.ret.hop_port = EntryOf(before[k]).hop_port
                    /\ route_list = SubSeq(before, 1, k - 1) \o SubSeq(before, k + 1, Len(before))
                                        \o <<before[k]>>
                    /\ \A j \in eligible :
                          Recency(h_lookup.matched_before, before[k])
                              <= Recency(h_lookup.matched_before, before[j])

\* A lookup with several eligible entries, all matched before, returned one
\* that was not first in the initial table order.
C9_Witness ==
    /\ RangeMatching /\ h_lookup # None /\ h_lookup.ret # None
    /\ LET before == h_lookup.before
           eligible == {i \in 1..Len(before) : Eligible(before[i], h_lookup.ip, h_lookup.port)}
       IN  /\ Cardinality(eligible) >= 2
           /\ \A j \in eligible : Recency(h_lookup.matched_before, before[j]) > 0
           /\ h_lookup.port = 5010
           /\ route_list[Len(route_list)] # RangeTable(variant, <<1, 2, 3, 4>>)[1]

\* The last step was an iteration of the BGP router's Router.run on a
\* datagram that parse_packet accepted.
DispatchedBGP ==
    variant = "BGP" /\ h_did \in {"run_BGP", "drop", "deliver", "noroute", "forward"}
HasHelloToken(packet) == contains(packet.Message[2], START_BGP)
ForThisRouter(packet) == packet.IP[2] = ROUTER_IP /\ packet.Port[2] = ROUTER_PORT

\* C11: the BGP router's dispatch loop applies its rules in priority order:
\* a payload with the hello token starts run_BGP whatever its TTL and
\* destination and is neither delivered nor forwarded; otherwise TTL 0 is a
\* drop, also for a packet addressed to this router; otherwise a packet for
\* this router is delivered and not forwarded; only otherwise is the table
\* consulted.
C11_DispatchPriority ==
    DispatchedBGP =>
        LET packet == parse_packet(h_in) IN
        /\ IsDict(packet)
        /\ IF HasHelloToken(packet)
           THEN h_did = "run_BGP" /\ Forwarded = {} /\ h_lookup = None
                /\ status \in {"converging", "crashed"}
           ELSE IF packet.TTL[2] = 0
           THEN h_did = "drop" /\ h_out = <<>> /\ h_lookup = None /\ status = "running"
           ELSE IF ForThisRouter(packet)
           THEN h_did = "deliver" /\ h_out = <<>> /\ h_lookup = None /\ status = "running"
           ELSE h_did \in {"noroute", "forward"} /\ h_lookup # None /\ status = "running"
                /\ h_lookup.ip = packet.IP[2] /\ h_lookup.port = packet.Port[2]

\* A hello with TTL 0 addressed to this router started run_BGP.
C11_Witness ==
    /\ variant = "BGP" /\ h_in = HelloWire(0)
    /\ h_did = "run_BGP" /\ status = "converging" /\ Len(h_out) = 4

\* An entry of an exact-match table, read from its line.
ExactEntryOf(line) ==
    LET f == split(line, " ") IN
    [ip |-> f[1], port |-> int(f[2]), hop_ip |-> f[Len(f) - 2],
     hop_port |-> int(f[Len(f) - 1]), hop_mtu |-> int(f[Len(f)])]
\* The lines of a table that match a destination under the router's policy.
Matching(table, ip, port) ==
    {i \in 1..Len(table) :
        IF variant = "BGP"
        THEN ExactEntryOf(table[i]).ip = ip /\ ExactEntryOf(table[i]).port = port
        ELSE Eligible(table[i], ip, port)}

\* C12: when no entry matches the destination the lookup returns None, the
\* router sends nothing, leaves its table and keeps running; an exact-match
\* hit leaves the table too and returns the first entry whose IP and port
\* both equal the packet's.
C12_NoRouteAndExactHit ==
    (h_lookup # None) =>
        LET matching == Matching(h_lookup.before, h_lookup.ip, h_lookup.port) IN
        /\ matching = {} =>
              /\ h_lookup.ret = None /\ h_did = "noroute"
              /\ h_out = <<>> /\ route_list = h_lookup.before /\ status = "running"
        /\ (variant = "BGP" /\ matching # {}) =>
              LET k == CHOOSE i \in matching : \A j \in matching : i <= j IN
              /\ route_list = h_lookup.before
              /\ h_lookup.ret = [hop_ip |-> ExactEntryOf(h_lookup.before[k]).hop_ip,
                                 hop_port |-> ExactEntryOf(h_lookup.before[k]).hop_port,
                                 hop_mtu |-> ExactEntryOf(h_lookup.before[k]).hop_mtu]

\* A packet for a destination the derived table of the BGP router does not
\* hold was dropped.
C12_Witness ==
    /\ variant = "BGP" /\ h_lookup # None /\ h_lookup.ret = None
    /\ Len(route_list) >= 3 /\ h_did = "noroute" /\ status = "running"

\* C14: a router leaves CONVERGING for CONVERGED only when the idle timeout
\* expires; no received datagram, malformed ones included, causes it.
C14_OnlyTimeoutConverges ==
    [][(status = "converging" /\ status' = "running") => h_did' = "timeout"]_vars

\* C15: no received datagram is fatal: after any datagram, one with too few
\* fields or a non-numeric integer field included, the loop is still running.
C15_NoDatagramFatal ==
    (h_in \in {Malformed, NonNumericTTL}) => status \in {"running", "converging"}

OnePathPerOrigin(paths) ==
    \A i, j \in 1..Len(paths) : i # j => paths[i][1] # paths[j][1]

\* C17: the ASPath table holds at most one path per origin; a held path is
\* replaced only by a strictly shorter path for the same origin, so no
\* length grows, an equal-length path replaces nothing and no origin leaves
\* the table.
C17_ShorterPathsOnly ==
    /\ OnePathPerOrigin(asn_list)
    /\ [][/\ OnePathPerOrigin(asn_list')
          /\ Len(asn_list') >= Len(asn_list)
          /\ \A k \in 1..Len(asn_list) :
                /\ asn_list'[k][1] = asn_list[k][1]
                /\ asn_list'[k] = asn_list[k] \/ Len(asn_list'[k]) < Len(asn_list[k])]_vars

\* The four-element path to 8885 was held and the three-element path that
\* arrived after it took its place.
C17_Witness ==
    /\ status = "converging" /\ h_in = AdvertList[4] /\ h_out # <<>>
    /\ AdvertMessages[3] \in h_bgp.delivered
    /\ PathTo(asn_list, AS(4)) = <<AS(4), AS(2), AS(0)>>

\* The next-hop address of every entry of a table, in the table's order.
NextHops(table) ==
    [i \in 1..Len(table) |->
        [ip |-> ExactEntryOf(table[i]).hop_ip, port |-> ExactEntryOf(table[i]).hop_port]]
\* Datagram m is addressed, on the socket and in its header, to neighbor n.
AddressedTo(m, n) ==
    /\ m.ip = n.ip /\ m.port = n.port
    /\ IsDict(parse_packet(m.wire))
    /\ parse_packet(m.wire).IP[2] = n.ip
    /\ parse_packet(m.wire).Port[2] = n.port
\* Datagram m advertises exactly the table paths.
Advertises(m, paths) ==
    /\ IsDict(parse_packet(m.wire))
    /\ contains(parse_packet(m.wire).Message[2], BGP_ROUTES)
    /\ extract_BGP_routes(parse_packet(m.wire).Message[2]) = paths
\* Every datagram of out advertises paths, and every neighbor of table is
\* the addressee of exactly one of them.
OneAdvertPerNeighbor(out, table, paths) ==
    LET n == NextHops(table) IN
    /\ \A j \in 1..Len(out) : Advertises(out[j], paths)
    /\ \A i \in 1..Len(n) : Cardinality({j \in 1..Len(out) : AddressedTo(out[j], n[i])}) = 1

\* C18: while CONVERGING, a receive cycle that adopted or replaced a path is
\* followed by exactly one advertisement of the whole updated ASPath table to
\* every neighbor, and a cycle that changed no path sends no datagram.
C18_ReadvertiseIffModified ==
    [][(status = "converging" /\ h_did' \in {"select", "hello"}) =>
          IF asn_list' # asn_list
          THEN OneAdvertPerNeighbor(h_out', route_list, asn_list')
          ELSE h_out' = <<>>]_vars
\* The first advertisement of neighbor 8882 was processed: the path to 8884
\* was adopted and the table of three paths went to both neighbors.
C18_Witness ==
    /\ status = "converging" /\ h_did = "select" /\ h_in = AdvertList[1]
    /\ Len(asn_list) = 3 /\ Len(h_out) = 2
    /\ OneAdvertPerNeighbor(h_out, route_list, asn_list)

\* Datagram m is a hello.
IsHello(m) ==
    IsDict(parse_packet(m.wire)) /\ parse_packet(m.wire).Message[2] = START_BGP
\* Every neighbor of table is sent a hello and, after it, an advertisement of
\* paths.
HelloThenAdvert(out, table, paths) ==
    \A i \in 1..Len(table) :
        \E h \in 1..Len(out) : \E a \in (h + 1)..Len(out) :
            /\ AddressedTo(out[h], NextHops(table)[i]) /\ IsHello(out[h])
            /\ AddressedTo(out[a], NextHops(table)[i]) /\ Advertises(out[a], paths)
\* The step is an entry of the BGP router into run_BGP.
EntersEngine == variant = "BGP" /\ status = "running" /\ h_did' = "run_BGP"

\* C19: on entering the propagation engine the router sends every next hop of
\* its route entries a hello and then an advertisement of its paths, and a
\* hello received while CONVERGING changes no state and sends nothing.
C19_HelloThenAdvertOnEntry ==
    [][/\ EntersEngine => HelloThenAdvert(h_out', route_list, asn_list)
       /\ (status = "converging" /\ h_did' = "hello") =>
             /\ h_out' = <<>>
             /\ UNCHANGED <<status, route_list, asn_list, fragment_dict>>]_vars

\* Path p ends in the identifier me and holds it nowhere else.
EndsInOnly(p, me) ==
    /\ p # <<>>
    /\ p[Len(p)] = me
    /\ \A j \in 1..(Len(p) - 1) : p[j] # me

\* C22: every path of the router's ASPath table has the router's own
\* identifier as its last element and nowhere else.
C22_OwnIdentifierLast ==
    variant = "BGP" => \A k \in 1..Len(asn_list) : EndsInOnly(asn_list[k], str(ROUTER_PORT))
\* Paths were learned beyond the two of the table file, and the advertisement
\* of a path through this router was processed as well.
C22_Witness ==
    /\ variant = "BGP" /\ status = "converging"
    /\ Len(asn_list) >= 4
    /\ AdvertMessages[5] \in h_bgp.delivered
    /\ \E k \in 1..Len(asn_list) : Len(asn_list[k]) >= 3

\* The step is the idle timeout of run_BGP.
Converges == status = "converging" /\ h_did' = "timeout"
\* The router has been through run_BGP and is back in its dispatch loop.
AlreadyConverged == variant = "BGP" /\ status = "running" /\ h_bgp # None
Addressees(out) == {[ip |-> out[j].ip, port |-> out[j].port] : j \in 1..Len(out)}
FirstRunNeighbors == {NextHops(BGPTable)[i] : i \in 1..Len(BGPTable)}

\* C24: a hello received by a CONVERGED router starts the engine again: the
\* router is CONVERGING, has sent a hello and then an advertisement of its
\* learned paths to each neighbor of the first run and to nobody else, and
\* keeps its learned paths; the timeout of every run ends in CONVERGED with
\* the paths kept.
C24_RerunFromConverged ==
    [][/\ (AlreadyConverged /\ h_did' = "run_BGP") =>
             /\ status' = "converging"
             /\ HelloThenAdvert(h_out', BGPTable, asn_list)
             /\ Addressees(h_out') = FirstRunNeighbors
             /\ asn_list' = asn_list
       /\ (variant = "BGP" /\ Converges) => status' = "running" /\ asn_list' = asn_list]_vars

\* A CONVERGED router that learned nothing beyond its table file runs the
\* engine again as the first time.
RerunWithoutLearnedPaths ==
    [][(AlreadyConverged /\ Len(asn_list) = Len(BGPTable) /\ h_did' = "run_BGP") =>
             /\ status' \in {"converging", "crashed"}
             /\ status' = "converging" =>
                   /\ HelloThenAdvert(h_out', BGPTable, asn_list)
                   /\ Addressees(h_out') = FirstRunNeighbors
                   /\ asn_list' = asn_list]_vars

\* A datagram that is neither hello nor advertisement and is still alive.
IsLiveData(w) ==
    /\ IsDict(parse_packet(w))
    /\ ~contains(parse_packet(w).Message[2], START_BGP)
    /\ ~contains(parse_packet(w).Message[2], BGP_ROUTES)
    /\ parse_packet(w).TTL[2] > 0
\* The step handled the datagram as data: printed, forwarded, or no route.
HandledAsData == h_did' \in {"deliver", "forward", "noroute"}

\* C26: an advertisement the BGP router receives goes through the selection
\* rule, in its dispatch loop (before a hello, after CONVERGED) as well as
\* while CONVERGING, and a live data packet received while CONVERGING is
\* handled as data.
C26_AdvertsSelectedDataKept ==
    [][variant = "BGP" =>
          /\ (status \in {"running", "converging"} /\ h_in' \in Adverts) => h_did' = "select"
          /\ (status = "converging" /\ IsLiveData(h_in')) => HandledAsData]_vars

\* What the two loops do with the datagrams that are theirs: run_BGP puts
\* every advertisement through the selection rule, the dispatch loop handles
\* every live data packet as data.
EachLoopItsOwnDatagrams ==
    [][variant = "BGP" =>
          /\ (status = "converging" /\ h_in' \in Adverts) => h_did' = "select"
          /\ (status = "running" /\ IsLiveData(h_in')) => HandledAsData]_vars

(***************************************************************************)
(* The BGP router on an open socket: recvfrom takes a datagram from any    *)
(* sender, also from a router that lists this one as a neighbor while      *)
(* BGPTable does not list it.                                              *)
(***************************************************************************)
ForeignAdverts ==
    {AdvertWire(6, <<<<AS(0), AS(6)>>, <<AS(7), AS(6)>>>>),
     AdvertWire(7, <<<<AS(6), AS(7)>>>>)}
Datagrams_Open == ForeignAdverts \cup {AdvertList[1], AdvertList[4], HelloWire(20)}
InitOpen ==
    /\ NoNetwork
    /\ variant = "BGP"
    /\ status = "running"
    /\ route_list = BGPTable
    /\ fragment_dict = <<>>
    /\ asn_list = generate_asn(route_list)
    /\ NoHistory
    /\ NoPipeline
    /\ NoCodec
ReceiveOpenRunning == \E d \in Datagrams_Open : ReceiveBGP(d)
ReceiveOpenInBGP == \E d \in Datagrams_Open : ReceiveConverging(d)
NextOpen == ReceiveOpenRunning \/ ReceiveOpenInBGP \/ Timeout
SpecOpen == InitOpen /\ [][NextOpen]_vars

\* The local routes whose first AS-segment element is the identifier.
LocalRoutesFor(list, id) == {i \in 1..Len(list) : asn_of(list[i])[1] = id}
\* A derived entry, read from its line: the path and the resolved address.
DerivedEntry(line) ==
    LET f == split(line, " ") IN
    [path |-> SubSeq(f, 2, Len(f) - 3), hop_ip |-> f[Len(f) - 2], hop_port |-> f[Len(f) - 1],
     mtu |-> f[Len(f)], ip |-> f[1]]
ResolvedBy(entry, route) ==
    LET f == split(route, " ") IN
    entry.hop_ip = f[Len(f) - 2] /\ entry.hop_port = f[Len(f) - 1]

\* C23: at convergence the derived table has one entry per learned path, in
\* order, and each entry's address is that of a local route whose first
\* AS-segment element is the path's second-to-last identifier; such a route
\* exists for every learned path.
C23_EntryPerPath ==
    [][Converges =>
          /\ status' = "running"
          /\ Len(route_list') = Len(asn_list)
          /\ \A k \in 1..Len(asn_list) :
                LET path == asn_list[k]
                    entry == DerivedEntry(route_list'[k])
                    local == LocalRoutesFor(route_list, path[Len(path) - 1])
                IN  /\ entry.path = path
                    /\ entry.ip = LOOPBACK /\ entry.mtu = str(1000)
                    /\ local # {}
                    /\ \E i \in local : ResolvedBy(entry, route_list[i])]_vars

(***************************************************************************)
(* A network of Fragmentation routers on the loopback address, one thread  *)
(* per port as run_all.py starts them; an end host injects one packet      *)
(***************************************************************************)
MaxTTL == 3
Routers == {ROUTER_PORT, ROUTER_PORT + 1, ROUTER_PORT + 2}

\* A datagram on its way to port, and the number of router transmissions
\* that lie behind it.
InFlight(port, wire, gen) == [port |-> port, wire |-> wire, gen |-> gen]
RECURSIVE sendto_bag(_, _)
sendto_bag(out, gen) ==
    IF out = <<>> THEN EmptyBag
    ELSE SetToBag({InFlight(Head(out).port, Head(out).wire, gen)}) (+) sendto_bag(Tail(out), gen)

\* Tables of the three routers: packets for 8884 go 8881 -> 8882 -> 8883 and,
\* where closed is TRUE, from 8883 back to 8881 (a forwarding cycle); 8883 is
\* the destination of the packets addressed to it.
RingTables(m1, m2, m3, closed) ==
    (ROUTER_PORT :> <<RouteLine(LOOPBACK, ROUTER_PORT + 1, ROUTER_PORT + 3, LOOPBACK, ROUTER_PORT + 1, m1)>>)
    @@ (ROUTER_PORT + 1 :> <<RouteLine(LOOPBACK, ROUTER_PORT, ROUTER_PORT, LOOPBACK, ROUTER_PORT, m1),
                             RouteLine(LOOPBACK, ROUTER_PORT + 2, ROUTER_PORT + 3, LOOPBACK, ROUTER_PORT + 2, m2)>>)
    @@ (ROUTER_PORT + 2 :> IF closed
                           THEN <<RouteLine(LOOPBACK, ROUTER_PORT + 3, ROUTER_PORT + 3, LOOPBACK, ROUTER_PORT, m3)>>
                           ELSE <<RouteLine(LOOPBACK, ROUTER_PORT, ROUTER_PORT + 1, LOOPBACK, ROUTER_PORT + 1, m2)>>)
LinkMTUs == {<<1000, 1000, 1000>>, <<36, 1000, 1000>>, <<36, 34, 1000>>, <<1000, 1000, 34>>}
InjectedPackets ==
    {Packet(LOOPBACK, ROUTER_PORT + n, t, 7, 0, 0, Payload(12, "ascii")) : n \in {2, 3}, t \in 0..MaxTTL}
    \cup {Packet(LOOPBACK, ROUTER_PORT + 2, MaxTTL, 7, 0, 0, Payload(8, "accent"))}

InitRing ==
    /\ NoRouter
    /\ NoPipeline
    /\ NoCodec
    /\ nw_status = [r \in Routers |-> "running"]
    /\ \E m \in LinkMTUs : \E closed \in BOOLEAN :
        nw_route_list = RingTables(m[1], m[2], m[3], closed)
    /\ nw_fragment_dict = [r \in Routers |-> <<>>]
    /\ nw_asn_list = [r \in Routers |-> <<>>]
    /\ nw_runs = [r \in Routers |-> 0]
    /\ nw_received = 0
    /\ nw_origin \in InjectedPackets
    /\ nw_reassembled = [r \in Routers |-> EmptyBag]
    /\ nw_flight = SetToBag({InFlight(ROUTER_PORT, create_packet(nw_origin), 0)})
    /\ nw_sent = 0

\* Router r receives the in-flight datagram m and runs one iteration of
\* Router.run; what it sends is in flight, except towards a port no router
\* is bound to.
ReceiveAt(r, m) ==
    /\ nw_status[r] = "running"
    /\ BagIn(m, nw_flight)
    /\ m.port = r
    /\ \E res \in {run_Fragmentation_at(LOOPBACK, r, m.wire, nw_route_list[r], nw_fragment_dict[r])} :
        /\ nw_status' = [nw_status EXCEPT ![r] = res.status]
        /\ nw_route_list' = [nw_route_list EXCEPT ![r] = res.route_list]
        /\ nw_fragment_dict' = [nw_fragment_dict EXCEPT ![r] = res.fragment_dict]
        /\ nw_flight' = (nw_flight (-) SetToBag({m}))
                        (+) sendto_bag(SelectSeq(res.out, LAMBDA o : o.port \in Routers), m.gen + 1)
        /\ nw_sent' = nw_sent + Len(res.out)
        /\ nw_reassembled' = [nw_reassembled EXCEPT ![r] =
                                IF res.did = "deliver" THEN @ (+) SetToBag({res.reasm.ret.Message[2]}) ELSE @]
    /\ nw_received' = nw_received + 1
    /\ UNCHANGED <<nw_asn_list, nw_runs, nw_origin, fragVars, routerVars, histVars, codecVars>>

NextRing == \E r \in Routers : \E m \in BagToSet(nw_flight) : ReceiveAt(r, m)

SpecRing == InitRing /\ [][NextRing]_vars

\* C16 as stated: the routers transmit at most t datagrams in total for a
\* packet injected with TTL t.
C16_AtMostTTLTransmissions == nw_origin # None => nw_sent <= nw_origin.TTL[2]

\* C16: every datagram derived from a packet injected with TTL t >= 0 (the
\* packet or one of its fragments) has at most t router transmissions behind
\* it: after k transmissions it carries TTL t - k, so none circulates forever.
C16_TTLBoundsEveryPath ==
    nw_origin # None =>
        \A m \in BagToSet(nw_flight) :
            /\ IsDict(parse_packet(m.wire))
            /\ parse_packet(m.wire).TTL[2] = nw_origin.TTL[2] - m.gen
            /\ m.gen <= nw_origin.TTL[2]
\* A fragment has gone round the cycle 8881 -> 8882 -> 8883 -> 8881 and
\* arrives with TTL 0, after more than t transmissions in total.
C16_Witness ==
    /\ nw_origin # None /\ nw_origin.TTL[2] = 3 /\ nw_sent > 3
    /\ \E m \in BagToSet(nw_flight) :
        m.gen = 3 /\ m.port = ROUTER_PORT /\ parse_packet(m.wire).TTL[2] = 0

\* The router the packets for 8883 are addressed to, and the packet's ID.
Destination == ROUTER_PORT + 2
ForDestination == nw_origin # None /\ nw_origin.Port[2] = Destination
\* Every fragment of the injected packet reaches the destination: the TTL
\* lasts for the two hops before it.
ReachesDestination == ForDestination /\ nw_origin.TTL[2] >= 3
AllArrived == nw_flight = EmptyBag

\* C21: when the fragments of a message for the destination arrive, each
\* once and in any order, the destination prints the original payload once:
\* not while a fragment is still on its way, and when the last one has
\* arrived; the buffer of the fragment ID is then deleted.
C21_DeliveredOnceWhenComplete ==
    ForDestination =>
        LET got == nw_reassembled[Destination] IN
        /\ BagCardinality(got) <= 1
        /\ got # EmptyBag =>
              /\ got = SetToBag({nw_origin.Message[2]})
              /\ AllArrived
              /\ nw_origin.ID[2] \notin DOMAIN nw_fragment_dict[Destination]
        /\ (ReachesDestination /\ AllArrived) => got # EmptyBag

\* Six fragments, cut at 8881 and cut again at 8882, have all arrived at
\* 8883 and the payload was printed.
C21_Witness ==
    /\ ReachesDestination /\ AllArrived
    /\ nw_received >= 1 + 3 + 6
    /\ nw_reassembled[Destination] = SetToBag({nw_origin.Message[2]})
    /\ nw_fragment_dict[Destination] = <<>>

\* The message was cut at 8881 and its fragments were cut again at 8882.
Refragmented ==
    /\ ReachesDestination
    /\ \E closed \in BOOLEAN : nw_route_list = RingTables(36, 34, 1000, closed)
\* The fragments on their way to the destination, once 8881 and 8882 have
\* sent all of them and the destination has received none.
AllSentNoneReceived ==
    /\ nw_received >= 1
    /\ \A m \in BagToSet(nw_flight) : m.port = Destination
    /\ nw_fragment_dict[Destination] = <<>>
    /\ nw_reassembled[Destination] = EmptyBag
Arriving == {parse_packet(m.wire) : m \in BagToSet(nw_flight)}
RECURSIVE BytesOf(_)
BytesOf(fragments) ==
    IF fragments = {} THEN 0
    ELSE LET f == CHOOSE f \in fragments : TRUE IN
         encoded_len(f.Message[2]) + BytesOf(fragments \ {f})
RECURSIVE CharsOf(_)
CharsOf(fragments) ==
    IF fragments = {} THEN 0
    ELSE LET f == CHOOSE f \in fragments : TRUE IN
         Len(f.Message[2]) + CharsOf(fragments \ {f})
Preceding(f) == {g \in Arriving : g.Offset[2] < f.Offset[2]}

\* C28: the fragments that arrive at the destination after a second
\* fragmentation carry the bytes of the original payload at their offset
\* (each offset is the byte length of the fragments before it, each size the
\* byte length of its own piece, the pieces in offset order are the
\* payload), exactly one carries flag 0, and once all have arrived the
\* destination has reassembled the original payload.
C28_RefragmentedReassembles ==
    Refragmented =>
        /\ AllSentNoneReceived =>
              /\ \A f \in Arriving :
                    /\ f.Offset[2] = BytesOf(Preceding(f))
                    /\ int(f.Size[2]) = encoded_len(f.Message[2])
                    /\ f.Message[2] = SubSeq(nw_origin.Message[2], CharsOf(Preceding(f)) + 1,
                                             CharsOf(Preceding(f)) + Len(f.Message[2]))
              /\ CharsOf(Arriving) = Len(nw_origin.Message[2])
              /\ Cardinality({f \in Arriving : f.Flag[2] = 0}) = 1
        /\ AllArrived => nw_reassembled[Destination] = SetToBag({nw_origin.Message[2]})

\* Six two-byte fragments of a 12-byte payload are on their way to 8883.
C28_Witness ==
    /\ Refragmented /\ AllSentNoneReceived
    /\ Cardinality(Arriving) = 6 /\ BagCardinality(nw_flight) = 6

(***************************************************************************)
(* A network of BGP routers on the loopback address.  An end host starts   *)
(* the protocol with one hello.  Datagrams are delivered in any order, well *)
(* within the 10 s idle timeout of run_BGP                                 *)
(***************************************************************************)
\* Neighbor relations of the routers 8881, 8882, 8883: a line and a triangle.
Topologies ==
    {(ROUTER_PORT :> <<ROUTER_PORT + 1>>) @@ (ROUTER_PORT + 1 :> <<ROUTER_PORT, ROUTER_PORT + 2>>)
        @@ (ROUTER_PORT + 2 :> <<ROUTER_PORT + 1>>),
     (ROUTER_PORT :> <<ROUTER_PORT + 1, ROUTER_PORT + 2>>) @@ (ROUTER_PORT + 1 :> <<ROUTER_PORT, ROUTER_PORT + 2>>)
        @@ (ROUTER_PORT + 2 :> <<ROUTER_PORT, ROUTER_PORT + 1>>)}
\* The table file of router r: one line per neighbor.
NeighborTable(r, neighbors) ==
    [i \in 1..Len(neighbors) |->
        RouteLine_BGP(LOOPBACK, <<str(neighbors[i]), str(r)>>, LOOPBACK, neighbors[i], 1000)]
\* The routers whose thread is in Router.run or in run_BGP.
Live == {r \in Routers : nw_status[r] \in {"running", "converging"}}
\* The datagrams a router thread has still to receive.
Pending == {m \in BagToSet(nw_flight) : m.port \in Live}

InitBGPNet ==
    /\ NoRouter
    /\ NoPipeline
    /\ NoCodec
    /\ nw_status = [r \in Routers |-> "running"]
    /\ \E t \in Topologies : nw_route_list = [r \in Routers |-> NeighborTable(r, t[r])]
    /\ nw_fragment_dict = [r \in Routers |-> <<>>]
    /\ nw_asn_list = [r \in Routers |-> generate_asn(nw_route_list[r])]
    /\ nw_flight = EmptyBag
    /\ nw_sent = 0
    /\ nw_runs = [r \in Routers |-> 0]
    /\ nw_received = 0
    /\ nw_origin = None
    /\ nw_reassembled = [r \in Routers |-> EmptyBag]

\* An end host sends router r the hello that starts the protocol.
StartBGP(r) ==
    /\ nw_origin = None
    /\ nw_origin' = start_BGP_dict([ip |-> LOOPBACK, port |-> r], 7)
    /\ nw_flight' = SetToBag({InFlight(r, create_packet(nw_origin'), 0)})
    /\ UNCHANGED <<nw_status, nw_route_list, nw_fragment_dict, nw_asn_list, nw_sent, nw_runs,
                   nw_received, nw_reassembled, fragVars, routerVars, histVars, codecVars>>

\* What router r makes of datagram d: the iteration of Router.run when it is
\* in its dispatch loop, of run_BGP's loop when it is CONVERGING.
bgp_iteration(r, d, ids) ==
    IF nw_status[r] = "running"
    THEN LET res == run_BGP_router_at(LOOPBACK, r, d, nw_route_list[r], ids) IN
         [status |-> res.status, route_list |-> nw_route_list[r], asn_list |-> nw_asn_list[r],
          out |-> res.out, did |-> res.did]
    ELSE LET res == run_BGP_at(r, d, nw_route_list[r], nw_asn_list[r], ids) IN
         [status |-> res.status, route_list |-> res.route_list, asn_list |-> res.asn_list,
          out |-> res.out, did |-> res.did]

\* Router r receives the in-flight datagram m.
ReceiveBGPAt(r, m) ==
    /\ nw_status[r] \in {"running", "converging"}
    /\ BagIn(m, nw_flight)
    /\ m.port = r
    /\ \E ids \in RandomIDs : \E res \in {bgp_iteration(r, m.wire, ids)} :
        \E sent \in SendOutcomes(res.out) :
        LET out == IF sent THEN res.out ELSE sent_before_error(res.out) IN
        /\ nw_status' = [nw_status EXCEPT ![r] = IF sent THEN res.status ELSE "crashed"]
        /\ nw_route_list' = [nw_route_list EXCEPT ![r] = res.route_list]
        /\ nw_asn_list' = [nw_asn_list EXCEPT ![r] = res.asn_list]
        /\ nw_flight' = (nw_flight (-) SetToBag({m}))
                        (+) sendto_bag(SelectSeq(out, LAMBDA o : o.port \in Routers /\ o.ip = LOOPBACK), 0)
        /\ nw_sent' = nw_sent + Len(out)
        /\ nw_runs' = [nw_runs EXCEPT ![r] = IF res.did = "run_BGP" THEN @ + 1 ELSE @]
    /\ nw_received' = nw_received + 1
    /\ UNCHANGED <<nw_fragment_dict, nw_origin, nw_reassembled, fragVars, routerVars, histVars, codecVars>>

\* The 10 s idle timeout of router r expires: no datagram was delivered to it
\* for 10 s, so none is pending any more, at r or at a router that would
\* answer to r.
TimeoutAt(r) ==
    /\ nw_status[r] = "converging"
    /\ Pending = {}
    /\ \E res \in {finish_BGP(nw_route_list[r], nw_asn_list[r])} :
        /\ nw_status' = [nw_status EXCEPT ![r] = res.status]
        /\ nw_route_list' = [nw_route_list EXCEPT ![r] = res.route_list]
    /\ UNCHANGED <<nw_fragment_dict, nw_asn_list, nw_flight, nw_sent, nw_runs, nw_received, nw_origin,
                   nw_reassembled, fragVars, routerVars, histVars, codecVars>>

StartProtocol == \E r \in Routers : StartBGP(r)
ReceiveInNetwork == \E r \in Routers : \E m \in BagToSet(nw_flight) : ReceiveBGPAt(r, m)
TimeoutInNetwork == \E r \in Routers : TimeoutAt(r)
NextBGPNet == StartProtocol \/ ReceiveInNetwork \/ TimeoutInNetwork

\* A step of ReceiveInNetwork, told by what it does to the count of received
\* datagrams; it is possible whenever a datagram is pending.
DatagramReceived == Pending # {} /\ nw_received' = nw_received + 1

\* A step of TimeoutInNetwork, told by what it does to the status of the
\* router; it is possible whenever a router is CONVERGING and nothing is
\* pending.
TimeoutTaken ==
    \E r \in Routers :
        /\ nw_status[r] = "converging"
        /\ Pending = {}
        /\ \E after \in {"running", "crashed"} : nw_status' = [nw_status EXCEPT ![r] = after]

\* Every datagram sent to a live router is received (recvfrom blocks until
\* one is there) and every expired timeout is taken.
SpecBGPNet ==
    /\ InitBGPNet
    /\ [][NextBGPNet]_vars
    /\ WF_nw_received(DatagramReceived)
    /\ WF_nw_status(TimeoutTaken)

\* Router r is CONVERGED: run_BGP was called and has returned, and the table
\* has one line per learned path, in the order of the paths.
Converged(r) ==
    /\ nw_status[r] = "running"
    /\ nw_runs[r] >= 1
    /\ generate_asn(nw_route_list[r]) = nw_asn_list[r]
AllConverged == Pending = {} /\ \A r \in Routers : Converged(r)

AdvertOvertakesHello ==
    \E m \in BagToSet(nw_flight) :
        /\ m.port \in Routers
        /\ nw_status[m.port] = "running" /\ nw_runs[m.port] = 0
        /\ contains(parse_packet(m.wire).Message[2], BGP_ROUTES)

\* The way of a datagram that router at receives in its dispatch loop,
\* through the tables as they are: where it ends, how, and the routers it
\* has left behind.
RECURSIVE Travel(_, _, _)
Travel(at, wire, visited) ==
    LET res == run_BGP_router_at(LOOPBACK, at, wire, nw_route_list[at],
                                 CHOOSE ids \in RandomIDs : TRUE)
    IN  IF res.did = "forward" /\ res.out[1].ip = LOOPBACK
                               /\ res.out[1].port \in Routers \ (visited \cup {at})
        THEN Travel(res.out[1].port, res.out[1].wire, visited \cup {at})
        ELSE [did |-> res.did, at |-> at, visited |-> visited]
DataFor(dst) == DataWire(LOOPBACK, dst, 10, Payload(2, "ascii"))

\* C25: once the protocol was started and all routers are CONVERGED, a data
\* packet handed to any router for the address of any other router is
\* forwarded along the derived tables, through no router twice, and is
\* printed by the destination.
C25_DerivedTablesDeliver ==
    (nw_origin # None /\ AllConverged) =>
        \A src, dst \in Routers :
            src # dst => LET way == Travel(src, DataFor(dst), {}) IN
                         way.did = "deliver" /\ way.at = dst

\* The derived tables do deliver wherever a path was learned: a packet for
\* an origin of the first router's ASPath table reaches that origin.
LearnedPathsDeliver ==
    (nw_origin # None /\ AllConverged) =>
        \A src, dst \in Routers :
            (src # dst /\ str(dst) \in Origins(nw_asn_list[src])) =>
                LET way == Travel(src, DataFor(dst), {}) IN
                way.did = "deliver" /\ way.at = dst
\* The line 8881 - 8882 - 8883 has converged and 8881 has a path to 8883.
LearnedPathsWitness ==
    /\ nw_origin # None /\ AllConverged
    /\ Len(nw_route_list[ROUTER_PORT]) = 2
    /\ Travel(ROUTER_PORT, DataFor(ROUTER_PORT + 2), {}).visited = {ROUTER_PORT, ROUTER_PORT + 1}

(***************************************************************************)
(* The codec: a dictionary is encoded and the text decoded again           *)
(***************************************************************************)
\* Dictionaries with the field types parse_packet produces, and the ones the
\* BGP router builds for its hello and its advertisement.
CodecPayloads == {<<>>, Payload(3, "ascii"), Payload(5, "accent"), <<"a", " ", "b", NL, "c">>}
TypedPackets ==
    {Packet(ip, port, ttl, id, offset, flag, message) :
        ip \in {IP_SHORT, LOOPBACK}, port \in {80, ROUTER_PORT}, ttl \in {0, 20},
        id \in {0, 417}, offset \in {0, 16}, flag \in {0, 1}, message \in CodecPayloads}
BuiltPackets ==
    {start_BGP_dict([ip |-> LOOPBACK, port |-> ROUTER_PORT + 1], id) : id \in {0, 417, 999}}
    \cup {BGP_routes_dict([ip |-> LOOPBACK, port |-> ROUTER_PORT + 1], id,
                          create_BGP_message(ROUTER_PORT, BGPTable)) : id \in {0, 417, 999}}

InitCodec ==
    /\ NoNetwork
    /\ cd_pc = "dict"
    /\ cd_packet \in TypedPackets \cup BuiltPackets
    /\ cd_wire = <<>>
    /\ cd_parsed = None
    /\ NoRouter
    /\ NoPipeline

Encode ==
    /\ cd_pc = "dict"
    /\ cd_wire' = create_packet(cd_packet)
    /\ cd_pc' = "wire"
    /\ UNCHANGED <<cd_packet, cd_parsed, fragVars, routerVars, histVars, netVars>>

Decode ==
    /\ cd_pc = "wire"
    /\ cd_parsed' = parse_packet(cd_wire)
    /\ cd_pc' = "parsed"
    /\ UNCHANGED <<cd_packet, cd_wire, fragVars, routerVars, histVars, netVars>>

NextCodec == Encode \/ Decode

SpecCodec == InitCodec /\ [][NextCodec]_vars

\* C7: parse_packet(create_packet(p)) equals p field for field, for every
\* well-formed p, the router's own hello and advertisement included.
C7_RoundTrip == (cd_pc = "parsed") => cd_parsed = cd_packet

\* The round trip of the dictionaries whose fields have parse_packet's types.
TypedRoundTrip == (cd_pc = "parsed" /\ cd_packet \in TypedPackets) => cd_parsed = cd_packet

====
